---------------------------- MODULE Spec2Model ----------------------------
(***************************************************************************)
(* Model of the recommendation engine of the wallet profile analyzer       *)
(* (src/src/app/page.tsx, the `recommendations` query of Home): profile    *)
(* tag extraction, token scoring and the diversity-constrained selection.  *)
(* Strings are TLA+ strings; the JavaScript string operations the code     *)
(* uses (toLowerCase, includes, substring, split, replace, trim, regular   *)
(* expression tests) are modelled character by character.                  *)
(***************************************************************************)
EXTENDS Integers, Sequences, FiniteSets, TLC

(***************************************************************************)
(* JavaScript string primitives                                            *)
(***************************************************************************)

\* A string field that is null or undefined (token.name, token.network?.name).
Null == "<null>"

\* The data of a query, or the value a query function returns: undefined (no
\* data), null, or an array.
JsUndefined == [kind |-> "undefined", value |-> <<>>]
JsNull == [kind |-> "null", value |-> <<>>]
JsValue(v) == [kind |-> "value", value |-> v]

UpperToLower ==
    [A |-> "a", B |-> "b", C |-> "c", D |-> "d", E |-> "e", F |-> "f",
     G |-> "g", H |-> "h", I |-> "i", J |-> "j", K |-> "k", L |-> "l",
     M |-> "m", N |-> "n", O |-> "o", P |-> "p", Q |-> "q", R |-> "r",
     S |-> "s", T |-> "t", U |-> "u", V |-> "v", W |-> "w", X |-> "x",
     Y |-> "y", Z |-> "z"]

LowerLetters == {UpperToLower[c] : c \in DOMAIN UpperToLower}
Digits == {"0", "1", "2", "3", "4", "5", "6", "7", "8", "9"}
\* \w of a JavaScript regular expression
WordChars == LowerLetters \cup DOMAIN UpperToLower \cup Digits \cup {"_"}
\* \s of a JavaScript regular expression (the whitespace the model uses)
SpaceChars == {" "}

CharAt(s, i) == SubSeq(s, i, i)

\* String.prototype.toLowerCase, character by character.
RECURSIVE lowerCase(_)
lowerCase(s) ==
    IF s = "" THEN ""
    ELSE LET c == CharAt(s, 1)
         IN  (IF c \in DOMAIN UpperToLower THEN UpperToLower[c] ELSE c)
                 \o lowerCase(SubSeq(s, 2, Len(s)))

(***************************************************************************)
(* The holdings and catalog tokens the model draws its inputs from         *)
(***************************************************************************)

\* A holding is the node of an edge of the portfolio query; network is
\* node.network?.name.  A catalog token is an entry of the body of the
\* /api/coingecko response, which the query function takes as it comes: the
\* universe has tokens as route.ts builds them, tokens without
\* price_change_24h as in its TOP_TOKENS, and tokens with an upper-case symbol
\* or category or with no category, which the query function provides for
\* with toLowerCase and `|| ''`.

\* Holds the catalog symbol "XXX" in another case; its only tag overlaps no
\* other token.
hX == [symbol |-> "Xxx", name |-> Null, network |-> Null]
\* Its tag "coin" overlaps the name or a category of most catalog tokens.
hCoin == [symbol |-> "QQ", name |-> "Qq Coin", network |-> Null]
\* Holds the catalog symbol "DOGE" in another case; its tags overlap most
\* catalog tokens, some of them by several rules.
hDefi == [symbol |-> "Doge", name |-> "DeFi Layer Coin",
          network |-> "SOLANA_MAINNET"]

\* Its only tag "zq" overlaps no catalog token, and it holds none.
hZq == [symbol |-> "Zq", name |-> Null, network |-> Null]

Holdings == {hX, hCoin, hDefi, hZq}

tA == [id |-> "a", symbol |-> "aaa", name |-> "Coin A",
       categories |-> <<"defi">>, price_change_24h |-> 0]
tB == [id |-> "b", symbol |-> "bbb", name |-> "Coin B",
       categories |-> <<"defi">>, price_change_24h |-> 0]
tC == [id |-> "c", symbol |-> "ccc", name |-> "Coin C",
       categories |-> <<"nft">>, price_change_24h |-> 0]
tX == [id |-> "x", symbol |-> "XXX", name |-> "Coin X",
       categories |-> <<"NFT", "art">>, price_change_24h |-> 7]
tL == [id |-> "l", symbol |-> "lll", name |-> "Coin L", categories |-> <<>>]
tDoge == [id |-> "dogecoin", symbol |-> "DOGE", name |-> "Dogecoin",
          categories |-> <<"Meme-Token">>]
tUsdt == [id |-> "tether", symbol |-> "USDT", name |-> "Tether",
          categories |-> <<"stablecoin">>, price_change_24h |-> 0]
tSol == [id |-> "solana", symbol |-> "sol", name |-> "Solana",
         categories |-> <<"layer-1">>, price_change_24h |-> 2]

\* A token without the categories field.
tM == [id |-> "m", symbol |-> "mmm", name |-> "Coin M", price_change_24h |-> 0]

Tokens == {tA, tB, tC, tX, tL, tDoge, tUsdt, tSol, tM}

\* lowerCase of the strings of the universe, evaluated once.  (f @@ <<>> is
\* f; it makes TLC tabulate f instead of evaluating its body at every
\* application.)
UniverseStrings ==
    {h.symbol : h \in Holdings} \cup {h.name : h \in Holdings}
        \cup {h.network : h \in Holdings}
        \cup {t.symbol : t \in Tokens} \cup {t.name : t \in Tokens}
        \cup UNION {{t.categories[i] : i \in 1..Len(t.categories)} :
                        t \in {u \in Tokens : "categories" \in DOMAIN u}}
lowerCaseMemo == [s \in UniverseStrings |-> lowerCase(s)] @@ <<>>

toLowerCase(s) ==
    IF s \in DOMAIN lowerCaseMemo THEN lowerCaseMemo[s] ELSE lowerCase(s)

\* String.prototype.includes: t occurs in s as a contiguous substring.
includes(s, t) ==
    \E i \in 1..(Len(s) - Len(t) + 1) : SubSeq(s, i, i + Len(t) - 1) = t

\* String.prototype.startsWith
startsWith(s, t) == Len(t) <= Len(s) /\ SubSeq(s, 1, Len(t)) = t

\* s.replace(/[^\w\s-]/g, ''): drop every character that is not a word
\* character, whitespace or a hyphen.
RECURSIVE removeSpecial(_)
removeSpecial(s) ==
    IF s = "" THEN ""
    ELSE LET c == CharAt(s, 1)
         IN  (IF c \in WordChars \cup SpaceChars \cup {"-"} THEN c ELSE "")
                 \o removeSpecial(SubSeq(s, 2, Len(s)))

\* String.prototype.trim
RECURSIVE trim(_)
trim(s) ==
    IF s = "" THEN ""
    ELSE IF CharAt(s, 1) \in SpaceChars THEN trim(SubSeq(s, 2, Len(s)))
    ELSE IF CharAt(s, Len(s)) \in SpaceChars THEN trim(SubSeq(s, 1, Len(s) - 1))
    ELSE s

\* /^\d+$/.test(s)
isNumeric(s) == Len(s) >= 1 /\ \A i \in 1..Len(s) : CharAt(s, i) \in Digits

\* s.split(/[\s_-]+/): the pieces between maximal runs of separators; a
\* leading or trailing run leaves an empty first or last piece.
NameSeparators == SpaceChars \cup {"_", "-"}

RECURSIVE splitFrom(_, _, _)
splitFrom(s, i, cur) ==
    IF i > Len(s) THEN <<cur>>
    ELSE IF CharAt(s, i) \in NameSeparators
         THEN IF i > 1 /\ CharAt(s, i - 1) \in NameSeparators
              THEN splitFrom(s, i + 1, cur)
              ELSE <<cur>> \o splitFrom(s, i + 1, "")
         ELSE splitFrom(s, i + 1, cur \o CharAt(s, i))

splitWords(s) == splitFrom(s, 1, "")

\* s.split('_')[0]: the part before the first underscore.
RECURSIVE beforeUnderscore(_)
beforeUnderscore(s) ==
    IF s = "" \/ CharAt(s, 1) = "_" THEN ""
    ELSE CharAt(s, 1) \o beforeUnderscore(SubSeq(s, 2, Len(s)))

(***************************************************************************)
(* Generic helpers                                                         *)
(***************************************************************************)

Range(seq) == {seq[i] : i \in 1..Len(seq)}

RECURSIVE SumSeq(_)
SumSeq(seq) == IF seq = <<>> THEN 0 ELSE seq[1] + SumSeq(Tail(seq))

\* Array.prototype.slice(0, n)
Slice(seq, n) == SubSeq(seq, 1, IF Len(seq) < n THEN Len(seq) ELSE n)

Min(a, b) == IF a < b THEN a ELSE b

(***************************************************************************)
(* Tag extraction: the portfolioData.forEach of the recommendations query  *)
(* A holding is edge.node: [symbol, name, network], where name and network *)
(* may be Null (token.name?. / token.network?.name).                       *)
(***************************************************************************)

cleanSymbol(symbol) == trim(removeSpecial(toLowerCase(symbol)))

categoryKeywords ==
    <<"defi", "finance", "swap", "exchange", "yield", "farm", "stake",
      "lend", "borrow", "loan", "credit", "save", "dao", "governance",
      "game", "gaming", "metaverse", "play", "nft", "art", "collect",
      "meme", "doge", "shib", "pepe", "inu", "floki", "moon", "safe",
      "token", "coin", "chain", "net", "protocol", "bridge", "oracle",
      "data", "ai", "index", "synth", "wrapped", "stable", "gold",
      "privacy", "identity", "payment", "layer">>

\* memeNamePatterns with the patterns of the symbol only.
memeNamePatterns_asSymbol == {"inu", "shib", "doge", "pepe"}

memeNamePatterns == {"inu", "shib", "doge", "pepe", "moon", "elon", "safe", "cum", "baby"}
memeSymbolPatterns == {"inu", "shib", "doge", "pepe"}
scamPatterns == {"airdrop", "claim", ".com", ".io", ".org", "https://", "http://",
                 "visit", "free", "website"}

holdingName(h) == IF h.name = Null THEN "" ELSE toLowerCase(h.name)

isScamName(name) == \E p \in scamPatterns : includes(name, p)

\* The tags one iteration of portfolioData.forEach adds to portfolioTokenTypes.
holdingTags(h) ==
    LET symbol == cleanSymbol(h.symbol)
        name == holdingName(h)
        symbolTag == IF symbol # "" /\ Len(symbol) > 1 /\ ~isNumeric(symbol)
                     THEN {symbol} ELSE {}
        networkTags ==
            IF h.network = Null \/ h.network = "" THEN {}
            ELSE LET networkName == toLowerCase(h.network)
                     simplifiedNetwork == beforeUnderscore(networkName)
                 IN  {networkName} \cup
                     (IF simplifiedNetwork # "" /\ simplifiedNetwork # networkName
                      THEN {simplifiedNetwork} ELSE {})
        keywordTags == {k \in Range(categoryKeywords) :
                            includes(name, k) \/ includes(symbol, k)}
        memeTags == IF (\E p \in memeNamePatterns : includes(name, p))
                       \/ (\E p \in memeSymbolPatterns : includes(symbol, p))
                    THEN {"meme", "meme-token"} ELSE {}
        yieldTags == IF Len(symbol) <= 5 /\ (startsWith(symbol, "a")
                          \/ startsWith(symbol, "c") \/ startsWith(symbol, "y"))
                     THEN {"yield", "lend"} ELSE {}
        nameWords == splitWords(name)
        wordTags == IF isScamName(name) \/ Len(nameWords) > 3 THEN {}
                    ELSE {w \in Range(nameWords) : Len(w) >= 3 /\ ~isNumeric(w)}
    IN  symbolTag \cup networkTags \cup keywordTags \cup memeTags
            \cup yieldTags \cup wordTags

\* networksFound: the lowercased network names of the holdings.
holdingNetworks(h) ==
    IF h.network = Null \/ h.network = "" THEN {} ELSE {toLowerCase(h.network)}

(***************************************************************************)
(* Token scoring: scoreToken                                               *)
(* A catalog token is [id, symbol, name, categories, price_change_24h],     *)
(* price_change_24h being optional.                                        *)
(***************************************************************************)

minStemLength == 3

\* hasOverlap without the test that str2 includes str1.
hasOverlap_oneWay(str1, str2) ==
    \/ includes(str1, str2)
    \/ \E i \in 0..(Len(str1) - minStemLength) :
          includes(str2, SubSeq(str1, i + 1, i + minStemLength))

hasOverlap(str1, str2) ==
    \/ includes(str1, str2)
    \/ includes(str2, str1)
    \/ \E i \in 0..(Len(str1) - minStemLength) :
          includes(str2, SubSeq(str1, i + 1, i + minStemLength))

specialTypeKeys ==
    <<"meme", "lend", "gold", "layer", "pepe", "bnb", "ban", "bobby", "top",
      "synx", "dct">>

specialTypes ==
    [meme  |-> <<"meme-token", "meme-coin", "dog-themed">>,
     lend  |-> <<"lending", "defi", "yield", "staking">>,
     gold  |-> <<"store-of-value", "commodity", "precious-metal">>,
     layer |-> <<"layer-1", "layer-2", "blockchain", "scaling">>,
     pepe  |-> <<"meme-token", "frog", "meme-coin">>,
     bnb   |-> <<"binance", "bnb-chain", "bsc", "bep20">>,
     ban   |-> <<"meme-coin", "community">>,
     bobby |-> <<"meme-token", "community", "nft-related">>,
     top   |-> <<"exchange-token", "utility">>,
     synx  |-> <<"privacy", "utility">>,
     dct   |-> <<"utility", "governance">>]

\* The dot of the third skipped pattern is U+2024 (one dot leader), not ".".
OneDotLeaderCom == "<U+2024>com"

\* (token.categories || []).map(cat => cat.toLowerCase())
lowerCategoriesOf(token) ==
    IF "categories" \notin DOMAIN token THEN <<>>
    ELSE [i \in 1..Len(token.categories) |-> toLowerCase(token.categories[i])]

isSkippedType(typeStr) ==
    includes(typeStr, "visit:") \/ includes(typeStr, "claim")
        \/ includes(typeStr, OneDotLeaderCom)

\* typeScore with the DeFi bonus subtracted instead of added.
typeScore_defiPenalty(type, token, isNetwork) ==
    LET typeStr == toLowerCase(type)
        lowerCategories == Range(lowerCategoriesOf(token))
        categoryBonus ==
            IF \E cat \in lowerCategories : hasOverlap(cat, typeStr) THEN 10 ELSE 0
        nameBonus ==
            IF hasOverlap(toLowerCase(token.name), typeStr)
                 \/ hasOverlap(toLowerCase(token.symbol), typeStr) THEN 8 ELSE 0
        specialOf(key) ==
            IF hasOverlap(typeStr, key)
            THEN SumSeq([j \in 1..Len(specialTypes[key]) |->
                     IF \E cat \in lowerCategories :
                            hasOverlap(cat, specialTypes[key][j])
                     THEN 5 ELSE 0])
            ELSE 0
        specialBonus ==
            SumSeq([k \in 1..Len(specialTypeKeys) |-> specialOf(specialTypeKeys[k])])
        networkBonus ==
            IF isNetwork /\ \E cat \in lowerCategories : hasOverlap(cat, typeStr)
            THEN 7 ELSE 0
        defiBonus ==
            IF (includes(typeStr, "defi") \/ includes(typeStr, "lend")
                    \/ includes(typeStr, "yield"))
               /\ \E cat \in lowerCategories :
                     includes(cat, "defi") \/ includes(cat, "lend")
                         \/ includes(cat, "yield") \/ includes(cat, "staking")
            THEN 6 ELSE 0
        memeBonus ==
            IF (includes(typeStr, "meme") \/ includes(typeStr, "pepe")
                    \/ includes(typeStr, "doge"))
               /\ \E cat \in lowerCategories :
                     includes(cat, "meme") \/ includes(cat, "pepe")
                         \/ includes(cat, "doge")
            THEN 6 ELSE 0
        layerBonus ==
            IF (includes(typeStr, "layer") \/ includes(typeStr, "chain")
                    \/ includes(typeStr, "network"))
               /\ \E cat \in lowerCategories :
                     includes(cat, "layer") \/ includes(cat, "chain")
                         \/ includes(cat, "network")
            THEN 4 ELSE 0
    IN  IF isSkippedType(typeStr) THEN 0
        ELSE categoryBonus + nameBonus + specialBonus + networkBonus
                 - defiBonus + memeBonus + layerBonus

\* What one iteration of Array.from(portfolioTokenTypes).forEach adds to score.
\* isNetwork is networksFound.has(typeStr).
typeScore(type, token, isNetwork) ==
    LET typeStr == toLowerCase(type)
        lowerCategories == Range(lowerCategoriesOf(token))
        categoryBonus ==
            IF \E cat \in lowerCategories : hasOverlap(cat, typeStr) THEN 10 ELSE 0
        nameBonus ==
            IF hasOverlap(toLowerCase(token.name), typeStr)
                 \/ hasOverlap(toLowerCase(token.symbol), typeStr) THEN 8 ELSE 0
        specialOf(key) ==
            IF hasOverlap(typeStr, key)
            THEN SumSeq([j \in 1..Len(specialTypes[key]) |->
                     IF \E cat \in lowerCategories :
                            hasOverlap(cat, specialTypes[key][j])
                     THEN 5 ELSE 0])
            ELSE 0
        specialBonus ==
            SumSeq([k \in 1..Len(specialTypeKeys) |-> specialOf(specialTypeKeys[k])])
        networkBonus ==
            IF isNetwork /\ \E cat \in lowerCategories : hasOverlap(cat, typeStr)
            THEN 7 ELSE 0
        defiBonus ==
            IF (includes(typeStr, "defi") \/ includes(typeStr, "lend")
                    \/ includes(typeStr, "yield"))
               /\ \E cat \in lowerCategories :
                     includes(cat, "defi") \/ includes(cat, "lend")
                         \/ includes(cat, "yield") \/ includes(cat, "staking")
            THEN 6 ELSE 0
        memeBonus ==
            IF (includes(typeStr, "meme") \/ includes(typeStr, "pepe")
                    \/ includes(typeStr, "doge"))
               /\ \E cat \in lowerCategories :
                     includes(cat, "meme") \/ includes(cat, "pepe")
                         \/ includes(cat, "doge")
            THEN 6 ELSE 0
        layerBonus ==
            IF (includes(typeStr, "layer") \/ includes(typeStr, "chain")
                    \/ includes(typeStr, "network"))
               /\ \E cat \in lowerCategories :
                     includes(cat, "layer") \/ includes(cat, "chain")
                         \/ includes(cat, "network")
            THEN 4 ELSE 0
    IN  IF isSkippedType(typeStr) THEN 0
        ELSE categoryBonus + nameBonus + specialBonus + networkBonus
                 + defiBonus + memeBonus + layerBonus

\* trendingBonus for every token that has a price change, whatever it is.
trendingBonus_noThreshold(token) ==
    IF "price_change_24h" \in DOMAIN token THEN 3 ELSE 0

\* token.price_change_24h && token.price_change_24h > 5; a token without the
\* field is a record without it.
trendingBonus(token) ==
    IF "price_change_24h" \in DOMAIN token /\ token.price_change_24h > 5
    THEN 3 ELSE 0

(***************************************************************************)
(* The portfolios and catalogs of the model                                *)
(***************************************************************************)

\* The longest portfolio of the model; the longest catalog that occurs in
\* every order; the longest catalog that occurs in the orders of catalogOrders.
MaxHoldings == 1
MaxPermuted == 3
MaxCatalog == 7

\* Sequences of at most n distinct elements of S.
DistinctSeqs(S, n) ==
    UNION {{q \in [1..k -> S] : \A i, j \in 1..k : q[i] = q[j] => i = j} :
              k \in 0..Min(n, Cardinality(S))}

\* The entries of seq at the positions of I, in the order of seq.
Pick(seq, I) ==
    [k \in 1..Cardinality(I) |->
        seq[CHOOSE i \in I : Cardinality({j \in I : j < i}) = k - 1]]

\* Two orders in which /api/coingecko lists the whole universe.
catalogOrders ==
    {<<tA, tB, tC, tX, tL, tDoge, tUsdt, tSol, tM>>,
     <<tSol, tM, tUsdt, tDoge, tB, tX, tL, tC, tA>>}

\* The portfolios the portfolio query can resolve to, and the catalogs
\* /api/coingecko can return (ids are unique within a catalog): the short
\* ones in every order, the longer ones in the orders of catalogOrders.
Portfolios == DistinctSeqs(Holdings, MaxHoldings)

\* The portfolios that list the same holdings in several orders.
MaxOrderHoldings == 2
OrderPortfolios == DistinctSeqs(Holdings, MaxOrderHoldings)
Catalogs ==
    DistinctSeqs(Tokens, MaxPermuted)
        \cup {Pick(order, I) :
                order \in catalogOrders,
                I \in {J \in SUBSET (1..Cardinality(Tokens)) :
                          Cardinality(J) <= MaxCatalog}}

(***************************************************************************)
(* The catalog /api/coingecko builds from CoinGecko's markets list, and    *)
(* its hardcoded fallback                                                  *)
(***************************************************************************)

\* [...new Set(array)]: the first occurrence of every element, in order.
RECURSIVE unique(_)
unique(array) ==
    IF array = <<>> THEN <<>>
    ELSE LET rest == unique(SubSeq(array, 1, Len(array) - 1))
             last == array[Len(array)]
         IN  IF last \in Range(rest) THEN rest ELSE Append(rest, last)

TOP_TOKENS ==
    <<[id |-> "bitcoin", symbol |-> "btc", name |-> "Bitcoin",
       categories |-> <<"cryptocurrency">>],
      [id |-> "ethereum", symbol |-> "eth", name |-> "Ethereum",
       categories |-> <<"smart-contract-platform", "defi">>],
      [id |-> "solana", symbol |-> "sol", name |-> "Solana",
       categories |-> <<"smart-contract-platform", "layer-1">>],
      [id |-> "arbitrum", symbol |-> "arb", name |-> "Arbitrum",
       categories |-> <<"layer-2", "scaling">>],
      [id |-> "dogecoin", symbol |-> "doge", name |-> "Dogecoin",
       categories |-> <<"meme-token">>],
      [id |-> "shiba-inu", symbol |-> "shib", name |-> "Shiba Inu",
       categories |-> <<"meme-token">>],
      [id |-> "chainlink", symbol |-> "link", name |-> "Chainlink",
       categories |-> <<"oracle">>],
      [id |-> "uniswap", symbol |-> "uni", name |-> "Uniswap",
       categories |-> <<"dex", "defi">>],
      [id |-> "polkadot", symbol |-> "dot", name |-> "Polkadot",
       categories |-> <<"interoperability">>],
      [id |-> "avalanche-2", symbol |-> "avax", name |-> "Avalanche",
       categories |-> <<"smart-contract-platform", "layer-1">>]>>

\* Object.entries(CATEGORY_MAPPING), in the order of the literal.
CATEGORY_MAPPING ==
    <<<<"bnb", <<"binance-coin", "bnb-chain", "bsc", "binance-smart-chain">>>>,
      <<"ethereum", <<"eth", "erc20", "ethereum-ecosystem", "eth-ecosystem">>>>,
      <<"solana", <<"sol", "solana-ecosystem", "sol-ecosystem">>>>,
      <<"polygon", <<"matic", "polygon-ecosystem", "polygon-network">>>>,
      <<"arbitrum", <<"arb", "layer-2", "ethereum-layer-2", "scaling">>>>,
      <<"optimism", <<"op", "layer-2", "ethereum-layer-2", "scaling">>>>,
      <<"avalanche", <<"avax", "layer-1">>>>,
      <<"fantom", <<"ftm", "layer-1">>>>,
      <<"base", <<"layer-2", "ethereum-layer-2", "coinbase-ecosystem">>>>,
      <<"blast", <<"ethereum-layer-2", "scaling">>>>,
      <<"zksync", <<"layer-2", "ethereum-layer-2", "zk-rollup", "scaling">>>>,
      <<"linea", <<"layer-2", "ethereum-layer-2", "scaling">>>>,
      <<"meme", <<"meme-token", "meme-coin", "pepe", "doge">>>>,
      <<"pepe", <<"meme-token", "meme-coin">>>>,
      <<"fartcoin", <<"meme-token", "meme-coin">>>>,
      <<"lend", <<"lending", "borrowing", "defi", "yield">>>>,
      <<"defi", <<"decentralized-finance", "yield", "liquidity">>>>,
      <<"dex", <<"decentralized-exchange", "swap", "amm">>>>,
      <<"gold", <<"commodities", "precious-metals", "store-of-value">>>>,
      <<"layer", <<"layer-1", "layer-2", "scaling", "blockchain">>>>,
      <<"broccoli", <<"food-related", "meme-token", "new-listings">>>>,
      <<"morgan", <<"finance", "investment", "defi">>>>,
      <<"mnl", <<"gaming", "utility-token">>>>,
      <<"ban", <<"meme-token", "community-token">>>>,
      <<"bobby", <<"nft", "meme-token", "community-token">>>>,
      <<"bkok", <<"adult-content", "entertainment", "meme-token">>>>,
      <<"poseidon", <<"gaming", "metaverse", "mythology-inspired">>>>,
      <<"rfc", <<"utility-token", "protocol-token">>>>,
      <<"synx", <<"privacy", "utility-token">>>>,
      <<"tq", <<"gaming", "utility-token">>>>,
      <<"dct", <<"utility-token", "infrastructure">>>>,
      <<"neurox", <<"ai", "technology", "utility-token">>>>,
      <<"ontropy", <<"ai", "data", "utility-token">>>>,
      <<"top", <<"utility-token", "exchange-token">>>>>>

\* The entries of CoinGecko's markets list the model draws from; a coin
\* without price_change_percentage_24h has it null.
cBtc == [id |-> "bitcoin", symbol |-> "btc", name |-> "Bitcoin",
         price_change_percentage_24h |-> 1]
cEth == [id |-> "ethereum", symbol |-> "ETH", name |-> "Ethereum",
         price_change_percentage_24h |-> 6]
cPepe == [id |-> "pepe", symbol |-> "pepe", name |-> "Pepe",
          price_change_percentage_24h |-> 12]
cXrp == [id |-> "ripple", symbol |-> "xrp", name |-> "XRP"]
cUni == [id |-> "uniswap", symbol |-> "uni", name |-> "Uniswap",
         price_change_percentage_24h |-> 0]
cAave == [id |-> "aave", symbol |-> "aave", name |-> "Aave Lend DeFi",
          price_change_percentage_24h |-> 3]
cArt == [id |-> "art", symbol |-> "xxx", name |-> "NFT Art Coin",
         price_change_percentage_24h |-> 7]
cNft == [id |-> "bobby", symbol |-> "bob", name |-> "Bobby",
         price_change_percentage_24h |-> 0]

Coins == {cBtc, cEth, cPepe, cXrp, cUni, cAave, cArt, cNft}

\* The markets lists CoinGecko answers with.
CoinLists ==
    {<<>>,
     <<cBtc, cXrp>>,
     <<cBtc, cEth, cPepe, cXrp, cUni, cAave, cArt, cNft>>}

\* The categories the if-chain of lines 199-217 adds for a symbol.
symbolCategories(symbol) ==
    IF symbol \in {"btc", "wbtc"} THEN <<"bitcoin", "store-of-value">>
    ELSE IF symbol \in {"eth", "weth"} THEN <<"ethereum", "smart-contract-platform">>
    ELSE IF symbol \in {"sol", "wsol"} THEN <<"solana", "layer-1">>
    ELSE IF symbol \in {"arb"} THEN <<"arbitrum", "layer-2", "scaling">>
    ELSE IF symbol \in {"matic"} THEN <<"polygon", "layer-2", "scaling">>
    ELSE IF symbol \in {"uni", "cake", "sushi"} THEN <<"dex", "defi">>
    ELSE IF symbol \in {"link", "band"} THEN <<"oracle">>
    ELSE IF symbol \in {"doge", "shib", "pepe", "bonk"} THEN <<"meme-token">>
    ELSE IF symbol \in {"avax"} THEN <<"avalanche", "layer-1">>
    ELSE <<>>

\* The categories of the entries of CATEGORY_MAPPING from the i-th on whose
\* key occurs in the symbol or in the lowercased name.
RECURSIVE mappedCategories(_, _, _)
mappedCategories(symbol, name, i) ==
    IF i > Len(CATEGORY_MAPPING) THEN <<>>
    ELSE LET key == lowerCase(CATEGORY_MAPPING[i][1])
         IN  (IF includes(symbol, key) \/ includes(name, key)
              THEN CATEGORY_MAPPING[i][2] ELSE <<>>)
                 \o mappedCategories(symbol, name, i + 1)

\* enrichedCoins with categories that start with the mapped ones.
enrichedCoin_mappedFirst(coin) ==
    LET symbol == lowerCase(coin.symbol)
    IN  [id |-> coin.id, symbol |-> symbol, name |-> coin.name,
         categories |-> unique(mappedCategories(symbol, lowerCase(coin.name), 1)
                                   \o <<"cryptocurrency">> \o symbolCategories(symbol)),
         price_change_24h |->
             IF "price_change_percentage_24h" \in DOMAIN coin
             THEN coin.price_change_percentage_24h ELSE 0]

\* One entry of enrichedCoins, with the fields the page reads.
enrichedCoin(coin) ==
    LET symbol == lowerCase(coin.symbol)
    IN  [id |-> coin.id, symbol |-> symbol, name |-> coin.name,
         categories |-> unique(<<"cryptocurrency">> \o symbolCategories(symbol)
                                   \o mappedCategories(symbol, lowerCase(coin.name), 1)),
         price_change_24h |->
             IF "price_change_percentage_24h" \in DOMAIN coin
             THEN coin.price_change_percentage_24h ELSE 0]

enrichedCoinMemo == [coin \in Coins |-> enrichedCoin(coin)] @@ <<>>

enrichedCoins(topCoins) ==
    [i \in 1..Len(topCoins) |-> enrichedCoinMemo[topCoins[i]]]

\* CATEGORY_MAPPING[key], or the empty list for undefined.
mappingOf(key) ==
    IF \E i \in 1..Len(CATEGORY_MAPPING) : CATEGORY_MAPPING[i][1] = key
    THEN CATEGORY_MAPPING[CHOOSE i \in 1..Len(CATEGORY_MAPPING) :
                              CATEGORY_MAPPING[i][1] = key][2]
    ELSE <<>>

\* The hardcoded fallback of lines 259-271.
hardcodedTokens ==
    [i \in 1..Len(TOP_TOKENS) |->
        [TOP_TOKENS[i] EXCEPT
            !.categories = unique(@ \o mappingOf(lowerCase(TOP_TOKENS[i].symbol)))]]
        @@ <<>>

\* The tokens the page can find in a catalog: those of the universe, the
\* entries the route builds and the entries of its fallback.
CatalogTokens ==
    Tokens \cup {enrichedCoinMemo[coin] : coin \in Coins} \cup Range(hardcodedTokens)

\* The tags of every holding and the score of every (tag, token) pair of the
\* universe, evaluated once.
holdingTagsMemo == [h \in Holdings |-> holdingTags(h)] @@ <<>>
TagUniverse == UNION {holdingTagsMemo[h] : h \in Holdings}
\* The tags and network names the scorer is applied to on its own: those of
\* the holdings, two keyword tags and a tag the scorer skips.
ScoreTypes == TagUniverse \cup {"meme", "lend", "claim"}
ScoreNetworks == UNION {holdingNetworks(h) : h \in Holdings}
typeScoreMemo ==
    [type \in ScoreTypes, tok \in CatalogTokens, isNetwork \in BOOLEAN |->
        typeScore(type, tok, isNetwork)] @@ <<>>

\* scoreToken with the held check on the symbol as the catalog spells it.
scoreToken_caseSensitive(token, heldSymbols, profileTypes, networks) ==
    IF token.symbol \in Range(heldSymbols) THEN -1
    ELSE LET RECURSIVE sumTypes(_)
             sumTypes(types) ==
                 IF types = {} THEN 0
                 ELSE LET type == CHOOSE t \in types : TRUE
                      IN  typeScoreMemo[type, token, toLowerCase(type) \in networks]
                              + sumTypes(types \ {type})
         IN  sumTypes(profileTypes) + trendingBonus(token)

\* scoreToken, given the three values it closes over: portfolioTokenSymbols,
\* portfolioTokenTypes and networksFound.
scoreToken(token, heldSymbols, profileTypes, networks) ==
    IF toLowerCase(token.symbol) \in Range(heldSymbols) THEN -1
    ELSE LET RECURSIVE sumTypes(_)
             sumTypes(types) ==
                 IF types = {} THEN 0
                 ELSE LET type == CHOOSE t \in types : TRUE
                      IN  typeScoreMemo[type, token, toLowerCase(type) \in networks]
                              + sumTypes(types \ {type})
         IN  sumTypes(profileTypes) + trendingBonus(token)

(***************************************************************************)
(* The values the query function derives from portfolioData                *)
(***************************************************************************)

symbolsOf(portfolio) ==
    [i \in 1..Len(portfolio) |-> toLowerCase(portfolio[i].symbol)]

networksOf(portfolio) ==
    UNION {holdingNetworks(portfolio[i]) : i \in 1..Len(portfolio)}

\* The tags of the first holding only.
typesOf_firstHolding(portfolio) ==
    IF portfolio = <<>> THEN {} ELSE holdingTagsMemo[portfolio[1]]

typesOf(portfolio) ==
    UNION {holdingTagsMemo[portfolio[i]] : i \in 1..Len(portfolio)}

(***************************************************************************)
(* Ranking and selection                                                   *)
(***************************************************************************)

\* The number of recommendations; the literal 5 of the selection code.
N == 5

\* A catalog token together with its score ({...token, score}).
withScore(token, score) ==
    [f \in DOMAIN token \cup {"score"} |->
        IF f = "score" THEN score ELSE token[f]]

\* Array.prototype.sort((a, b) => b.score - a.score): a stable sort, highest
\* score first.
RECURSIVE insertByScore(_, _)
insertByScore(sorted, token) ==
    IF sorted = <<>> THEN <<token>>
    ELSE IF token.score > sorted[Len(sorted)].score
         THEN insertByScore(SubSeq(sorted, 1, Len(sorted) - 1), token)
                  \o <<sorted[Len(sorted)]>>
         ELSE sorted \o <<token>>

RECURSIVE sortByScore(_)
sortByScore(tokens) ==
    IF tokens = <<>> THEN <<>>
    ELSE insertByScore(sortByScore(SubSeq(tokens, 1, Len(tokens) - 1)),
                       tokens[Len(tokens)])

\* mainCategory without the lowercasing.
mainCategory_caseSensitive(token) ==
    IF Len(token.categories) = 0 THEN "" ELSE token.categories[1]

\* token.categories[0]?.toLowerCase() || ''
mainCategory(token) ==
    IF Len(token.categories) = 0 THEN ""
    ELSE toLowerCase(token.categories[1])

\* First pass: the highest scoring token of each main category, at most n.
RECURSIVE diversityPass(_, _, _)
diversityPass(scoredTokens, diverse, n) ==
    IF scoredTokens = <<>> \/ Len(diverse) >= n THEN diverse
    ELSE LET token == Head(scoredTokens)
         IN  IF mainCategory(token) \notin {mainCategory(t) : t \in Range(diverse)}
             THEN diversityPass(Tail(scoredTokens), Append(diverse, token), n)
             ELSE diversityPass(Tail(scoredTokens), diverse, n)

\* Second pass: fill up to n from the candidates in `best`, skipping the ids
\* already chosen.
RECURSIVE fillPass(_, _, _)
fillPass(diverse, best, n) ==
    IF best = <<>> \/ Len(diverse) >= n THEN diverse
    ELSE LET token == Head(best)
         IN  IF token.id \notin {t.id : t \in Range(diverse)}
             THEN fillPass(Append(diverse, token), Tail(best), n)
             ELSE fillPass(diverse, Tail(best), n)

\* selectDiverse with a fill pass that does not skip the ids already chosen.
selectDiverse_refill(scoredTokens, n) ==
    LET bestRecommendations == Slice(scoredTokens, n)
        firstPass == diversityPass(scoredTokens, <<>>, n)
    IN  IF Len(firstPass) < n
        THEN firstPass \o Slice(bestRecommendations, n - Len(firstPass))
        ELSE firstPass

\* selectDiverse with a fill pass over only as many of the best candidates as
\* there are free places.
selectDiverse_shortSlice(scoredTokens, n) ==
    LET firstPass == diversityPass(scoredTokens, <<>>, n)
        bestRecommendations == Slice(scoredTokens, n - Len(firstPass))
    IN  IF Len(firstPass) < n THEN fillPass(firstPass, bestRecommendations, n)
        ELSE firstPass

\* The selection for a non-empty score-sorted list: diversity pass over the
\* whole list, fill pass over its first n entries (bestRecommendations).
selectDiverse(scoredTokens, n) ==
    LET bestRecommendations == Slice(scoredTokens, n)
        firstPass == diversityPass(scoredTokens, <<>>, n)
        diverseRecommendations ==
            IF Len(firstPass) < n THEN fillPass(firstPass, bestRecommendations, n)
            ELSE firstPass
    IN  IF Len(diverseRecommendations) > 0 THEN diverseRecommendations
        ELSE bestRecommendations

\* scoreToken(token) inside the query function run for `portfolio`.
portfolioScore(portfolio, token) ==
    scoreToken(token, symbolsOf(portfolio), typesOf(portfolio),
               networksOf(portfolio))

\* The scores of the universe, evaluated once.
portfolioScoreMemo ==
    [portfolio \in Portfolios \cup OrderPortfolios, token \in CatalogTokens |->
        portfolioScore(portfolio, token)] @@ <<>>

\* scoredTokensOf with the filter score >= 0.
scoredTokensOf_nonNegative(portfolio, catalog) ==
    LET scored == [i \in 1..Len(catalog) |->
                      withScore(catalog[i], portfolioScoreMemo[portfolio, catalog[i]])]
        nonNegative(t) == t.score >= 0
    IN  sortByScore(SelectSeq(scored, nonNegative))

\* scoredTokensOf without the sort.
scoredTokensOf_unsorted(portfolio, catalog) ==
    LET scored == [i \in 1..Len(catalog) |->
                      withScore(catalog[i], portfolioScoreMemo[portfolio, catalog[i]])]
        positive(t) == t.score > 0
    IN  SelectSeq(scored, positive)

\* tokenData.map(score).filter(score > 0).sort(descending)
scoredTokensOf(portfolio, catalog) ==
    LET scored == [i \in 1..Len(catalog) |->
                      withScore(catalog[i], portfolioScoreMemo[portfolio, catalog[i]])]
        positive(t) == t.score > 0
    IN  sortByScore(SelectSeq(scored, positive))

\* topTokens without the slice.
topTokens_noSlice(portfolio, catalog, n) ==
    LET keep(token) ==
            /\ toLowerCase(token.symbol) \notin Range(symbolsOf(portfolio))
            /\ toLowerCase(token.symbol) # "usdt"
            /\ toLowerCase(token.symbol) # "usdc"
    IN  SelectSeq(catalog, keep)

\* topTokens with the slice taken before the filter.
topTokens_sliceFirst(portfolio, catalog, n) ==
    LET keep(token) ==
            /\ toLowerCase(token.symbol) \notin Range(symbolsOf(portfolio))
            /\ toLowerCase(token.symbol) # "usdt"
            /\ toLowerCase(token.symbol) # "usdc"
    IN  SelectSeq(Slice(catalog, n), keep)

\* topTokens that keeps the stablecoins.
topTokens_keepStable(portfolio, catalog, n) ==
    LET keep(token) ==
            toLowerCase(token.symbol) \notin Range(symbolsOf(portfolio))
    IN  Slice(SelectSeq(catalog, keep), n)

\* topTokens that keeps the held tokens.
topTokens_keepHeld(portfolio, catalog, n) ==
    LET keep(token) ==
            /\ toLowerCase(token.symbol) # "usdt"
            /\ toLowerCase(token.symbol) # "usdc"
    IN  Slice(SelectSeq(catalog, keep), n)

\* The fallback: the first n catalog tokens that are not held and are neither
\* usdt nor usdc.
topTokens(portfolio, catalog, n) ==
    LET keep(token) ==
            /\ toLowerCase(token.symbol) \notin Range(symbolsOf(portfolio))
            /\ toLowerCase(token.symbol) # "usdt"
            /\ toLowerCase(token.symbol) # "usdc"
    IN  Slice(SelectSeq(catalog, keep), n)

\* The first pass reads token.categories[0] of every token it reaches; for a
\* token without the categories field that is a TypeError.
RECURSIVE firstPassThrows(_, _, _)
firstPassThrows(scoredTokens, diverse, n) ==
    IF scoredTokens = <<>> \/ Len(diverse) >= n THEN FALSE
    ELSE LET token == Head(scoredTokens)
         IN  IF "categories" \notin DOMAIN token THEN TRUE
             ELSE IF mainCategory(token) \notin {mainCategory(t) : t \in Range(diverse)}
                  THEN firstPassThrows(Tail(scoredTokens), Append(diverse, token), n)
                  ELSE firstPassThrows(Tail(scoredTokens), diverse, n)

\* The query of a query function that threw: the catch block sets the error
\* and throws again, the query has an error and no data.
JsError == [kind |-> "error", value |-> <<>>]

\* queryFn without the guard on an empty portfolio.
queryFn_noEmptyGuard(portfolioData, catalog) ==
    LET portfolio == portfolioData.value
        scoredTokens == scoredTokensOf(portfolio, catalog)
    IN  IF Len(scoredTokens) > 0
        THEN IF firstPassThrows(scoredTokens, <<>>, N) THEN JsError
             ELSE JsValue(selectDiverse(scoredTokens, N))
        ELSE JsValue(topTokens(portfolio, catalog, N))

\* The query function of the recommendations query, for the catalog that
\* /api/coingecko returned.
queryFn(portfolioData, catalog) ==
    IF portfolioData.kind # "value" \/ Len(portfolioData.value) = 0 THEN JsNull
    ELSE LET portfolio == portfolioData.value
             scoredTokens == scoredTokensOf(portfolio, catalog)
         IN  IF Len(scoredTokens) > 0
             THEN IF firstPassThrows(scoredTokens, <<>>, N) THEN JsError
                  ELSE JsValue(selectDiverse(scoredTokens, N))
             ELSE JsValue(topTokens(portfolio, catalog, N))

\* enabled: !!portfolioData && portfolioData.length > 0
queryEnabled(portfolioData) ==
    portfolioData.kind = "value" /\ Len(portfolioData.value) > 0

(***************************************************************************)
(* The state machine: the portfolio query and the recommendations query    *)
(***************************************************************************)

VARIABLES
    walletHoldings,     \* the token balances of the analysed wallet
    tokenData,          \* the catalog /api/coingecko answers with
    portfolioData,      \* data of the portfolio query
    recommendations,    \* data of the recommendations query
    \* one application of scoreToken: the values it closes over, the token,
    \* the score before and after one more tag entered portfolioTokenTypes
    portfolioTokenSymbols,
    portfolioTokenTypes,
    networksFound,
    scoredToken,
    scoreBefore,
    scoreAfter,
    \* the values the page derives from portfolioData when it renders
    portfolioByNetwork,
    totalPortfolioValue,
    networksCount,
    \* one application of hasOverlap: its two arguments and what it returned
    overlapArgs,
    overlapResult,
    \* the Analyze button
    isAnalyzing,
    error,
    analyzeRun          \* the run of handleAnalyze: where it is, its locals, its closure

queryVars == <<walletHoldings, tokenData, portfolioData, recommendations>>
scoreVars == <<portfolioTokenSymbols, portfolioTokenTypes, networksFound,
               scoredToken, scoreBefore, scoreAfter>>
memoVars == <<portfolioByNetwork, totalPortfolioValue, networksCount>>
overlapVars == <<overlapArgs, overlapResult>>
analyzeVars == <<isAnalyzing, error, analyzeRun>>
pageVars == <<queryVars, scoreVars, memoVars, overlapVars, analyzeVars>>

\* The state of the API routes, which the page reaches only over HTTP.
VARIABLES
    \* the Zapper proxy with the in-memory rate limiter
    now,                \* Date.now()
    requests,           \* SimpleRateLimiter.requests: key -> {count, resetTime}
    checked,            \* the key and the result of the last check, or none
    admitted,           \* per key, the times of the admitted checks of the last windowMs
    zapperApiKey,       \* process.env.ZAPPER_API_KEY is set
    \* GET /api/networks
    cachedNetworks,     \* null or the cached array of network ids
    cacheTimestamp,
    pendingGets,        \* per handler, the `now` it read before it awaits fetch
    networksResponse,   \* the last response sent, or none
    \* /api/coingecko
    cachedTokens,       \* null or the cached catalog
    tokensTimestamp,    \* cacheTimestamp of the coingecko route
    pendingFetches,     \* per caller of fetchTokensWithCategories: it awaits fetch
    tokensReturned,     \* what the last call returned and how, or none
    \* POST /api/zapper with the invalid-network retry
    proxyStage,         \* "idle", awaiting the "first" or the "retry" fetch, "done"
    proxyBody,          \* the parsed request body of the POST
    upstreamRequests,   \* the networks of the requests this POST sent to Zapper
    zapperAnswers,      \* what its fetches came to (data, retryData)
    proxyResponses      \* the responses this POST sent

limiterVars == <<now, requests, checked, admitted>>
networksVars == <<cachedNetworks, cacheTimestamp, pendingGets, networksResponse>>
tokensVars == <<cachedTokens, tokensTimestamp, pendingFetches, tokensReturned>>
proxyVars == <<proxyStage, proxyBody, upstreamRequests, zapperAnswers, proxyResponses>>
routeVars == <<limiterVars, zapperApiKey, networksVars, tokensVars, proxyVars>>
vars == <<pageVars, routeVars>>

\* handleAnalyze has not run: lines 819-820.  foundAt is the number of the
\* run's first fetch that returned holdings, 0 before.
NoRun == [stage |-> "idle", retryCount |-> 0, detectedNetwork |-> "",
          closure |-> JsUndefined, fetches |-> 0, foundAt |-> 0]
NotAnalyzing ==
    /\ isAnalyzing = FALSE
    /\ error = Null
    /\ analyzeRun = NoRun

\* hasOverlap has not been applied yet.
NoOverlapCall ==
    /\ overlapArgs = <<>>
    /\ overlapResult = FALSE

\* No request has reached the rate limiter.
NoChecks ==
    /\ now = 0
    /\ requests = <<>>
    /\ checked = <<>>
    /\ admitted = <<>>

\* The longest run of GET handlers of a route that await their fetch at the
\* same time, and the mark of a handler that is not running.
MaxHandlers == 2
Handlers == 1..MaxHandlers
Idle == -1

\* GET /api/networks has not been requested: lines 15-16 of its module.
NoNetworksRequest ==
    /\ cachedNetworks = JsNull
    /\ cacheTimestamp = 0
    /\ pendingGets = [h \in Handlers |-> Idle]
    /\ networksResponse = <<>>

\* fetchTokensWithCategories has not been called: lines 22-23 of its module.
NoTokensFetch ==
    /\ cachedTokens = JsNull
    /\ tokensTimestamp = 0
    /\ pendingFetches = [h \in Handlers |-> FALSE]
    /\ tokensReturned = <<>>

\* No POST has reached the Zapper proxy.
NoPost ==
    /\ proxyStage = "idle"
    /\ proxyBody = <<>>
    /\ upstreamRequests = <<>>
    /\ zapperAnswers = <<>>
    /\ proxyResponses = <<>>

\* No request has reached an API route.
RoutesIdle ==
    /\ NoChecks
    /\ zapperApiKey = TRUE
    /\ NoNetworksRequest
    /\ NoTokensFetch
    /\ NoPost

\* The page has not rendered yet.
NotRendered ==
    /\ portfolioByNetwork = JsUndefined
    /\ totalPortfolioValue = JsUndefined
    /\ networksCount = JsUndefined

NoScoring ==
    /\ portfolioTokenSymbols = <<>>
    /\ portfolioTokenTypes = {}
    /\ networksFound = {}
    /\ scoredToken = tA
    /\ scoreBefore = 0
    /\ scoreAfter = 0

Init ==
    /\ walletHoldings \in Portfolios
    /\ tokenData \in Catalogs
    /\ portfolioData = JsUndefined
    /\ recommendations = JsUndefined
    /\ NoScoring
    /\ NotRendered
    /\ NoOverlapCall
    /\ NotAnalyzing
    /\ RoutesIdle

\* The portfolio query resolves with the edges of the wallet; the
\* recommendations query is keyed by portfolioData and has no data for a new
\* key yet, and the memos that depend on portfolioData are due again.
FetchPortfolio ==
    /\ portfolioData' = JsValue(walletHoldings)
    /\ recommendations' =
           IF portfolioData' = portfolioData THEN recommendations ELSE JsUndefined
    /\ portfolioByNetwork' =
           IF portfolioData' = portfolioData THEN portfolioByNetwork ELSE JsUndefined
    /\ totalPortfolioValue' =
           IF portfolioData' = portfolioData THEN totalPortfolioValue ELSE JsUndefined
    /\ networksCount' =
           IF portfolioData' = portfolioData THEN networksCount ELSE JsUndefined
    /\ UNCHANGED <<walletHoldings, tokenData, scoreVars, overlapVars, routeVars,
                   analyzeVars>>

\* The recommendations query runs its query function.
Recommend ==
    /\ queryEnabled(portfolioData)
    /\ recommendations' = queryFn(portfolioData, tokenData)
    /\ UNCHANGED <<walletHoldings, tokenData, portfolioData, scoreVars, memoVars,
                   overlapVars, routeVars,
                   analyzeVars>>

Next ==
    \/ FetchPortfolio
    \/ Recommend

Spec == Init /\ [][Next]_vars

(***************************************************************************)
(* The scorer on its own: scoreToken applied to one token while the        *)
(* profile tag set grows                                                   *)
(***************************************************************************)

\* The largest tag set the scorer is applied to.
MaxTypes == 3

NoQuery ==
    /\ walletHoldings = <<>>
    /\ tokenData = <<>>
    /\ portfolioData = JsUndefined
    /\ recommendations = JsUndefined

InitScore ==
    /\ NoQuery
    /\ scoredToken \in Tokens
    /\ portfolioTokenSymbols \in {symbolsOf(p) : p \in DistinctSeqs(Holdings, 1)}
    /\ portfolioTokenTypes \in {T \in SUBSET ScoreTypes : Cardinality(T) < MaxTypes}
    /\ networksFound \in SUBSET ScoreNetworks
    /\ scoreBefore = 0
    /\ scoreAfter = 0
    /\ NotRendered
    /\ NoOverlapCall
    /\ NotAnalyzing
    /\ RoutesIdle

\* scoreToken runs over the current tag set.
ScoreToken ==
    /\ scoreAfter' = scoreToken(scoredToken, portfolioTokenSymbols, portfolioTokenTypes,
                           networksFound)
    /\ scoreBefore' = scoreAfter'
    /\ UNCHANGED <<queryVars, portfolioTokenSymbols, portfolioTokenTypes,
                   networksFound, scoredToken, memoVars, overlapVars,
                   routeVars,
                   analyzeVars>>

\* One more tag enters the profile and scoreToken runs again.
ScoreWithAddedType(type) ==
    /\ Cardinality(portfolioTokenTypes) < MaxTypes
    /\ portfolioTokenTypes' = portfolioTokenTypes \cup {type}
    /\ scoreBefore' = scoreToken(scoredToken, portfolioTokenSymbols,
                                 portfolioTokenTypes, networksFound)
    /\ scoreAfter' = scoreToken(scoredToken, portfolioTokenSymbols, portfolioTokenTypes',
                           networksFound)
    /\ UNCHANGED <<queryVars, portfolioTokenSymbols, networksFound, scoredToken,
                   memoVars, overlapVars, routeVars,
                   analyzeVars>>

NextScore ==
    \/ ScoreToken
    \/ \E type \in ScoreTypes : ScoreWithAddedType(type)

SpecScore == InitScore /\ [][NextScore]_vars

(***************************************************************************)
(* The tag extractor on its own: the values the query function derives     *)
(* from portfolioData, for holdings of every kind the extractor tells apart *)
(***************************************************************************)

\* A holding whose name matches the scam patterns, on the network "solana".
hScam == [symbol |-> "scamx", name |-> "Free Airdrop Claim http://scam.io",
          network |-> "Solana"]
\* Holdings with a meme pattern in the symbol only, and in the name only.
hSafeSymbol == [symbol |-> "SAFEX", name |-> Null, network |-> "Moonbeam"]
hElonSymbol == [symbol |-> "ELON", name |-> "Mars", network |-> Null]
hPepeSymbol == [symbol |-> "PEPE2", name |-> Null, network |-> "gnosis"]
hMoonName == [symbol |-> "LUNA", name |-> "To The Moon", network |-> Null]

TagHoldings == Holdings \cup {hScam, hSafeSymbol, hElonSymbol, hPepeSymbol, hMoonName}

\* The longest portfolio the extractor is applied to.
MaxTagHoldings == 2

\* portfolioTokenTypes after portfolioData.forEach.
extractTypes(portfolio) ==
    UNION {holdingTags(portfolio[i]) : i \in 1..Len(portfolio)}

InitTags ==
    /\ walletHoldings \in DistinctSeqs(TagHoldings, MaxTagHoldings)
    /\ tokenData = <<>>
    /\ portfolioData = JsUndefined
    /\ recommendations = JsUndefined
    /\ NoScoring
    /\ NotRendered
    /\ NoOverlapCall
    /\ NotAnalyzing
    /\ RoutesIdle

\* The query function, past its guard, derives portfolioTokenSymbols,
\* networksFound and portfolioTokenTypes from portfolioData.
ExtractTypes ==
    /\ queryEnabled(portfolioData)
    /\ portfolioTokenSymbols' = symbolsOf(portfolioData.value)
    /\ networksFound' = networksOf(portfolioData.value)
    /\ portfolioTokenTypes' = extractTypes(portfolioData.value)
    /\ UNCHANGED <<queryVars, scoredToken, scoreBefore, scoreAfter, memoVars,
                   overlapVars, routeVars,
                   analyzeVars>>

NextTags ==
    \/ FetchPortfolio
    \/ ExtractTypes

SpecTags == InitTags /\ [][NextTags]_vars

(***************************************************************************)
(* hasOverlap on its own: applied to every pair of strings over two        *)
(* letters up to a length, and of some tags and categories                  *)
(***************************************************************************)

\* The longest string over the letters a and b that hasOverlap is applied to.
MaxStrLen == 3

RECURSIVE lettersUpTo(_)
lettersUpTo(n) ==
    IF n = 0 THEN {""}
    ELSE lettersUpTo(n - 1)
             \cup {s \o c : s \in lettersUpTo(n - 1), c \in {"a", "b"}}

\* Longer strings: two that share three letters without one containing the
\* other, and tags and lowercased categories as scoreToken passes them.
overlapWords ==
    {"abab", "babaa", "defi", "decentralized-finance", "layer-1", "player", "nft",
     "ai"}

OverlapStrings == lettersUpTo(MaxStrLen) \cup overlapWords

InitOverlap ==
    /\ walletHoldings = <<>>
    /\ tokenData = <<>>
    /\ portfolioData = JsUndefined
    /\ recommendations = JsUndefined
    /\ NoScoring
    /\ NotRendered
    /\ NoOverlapCall
    /\ NotAnalyzing
    /\ RoutesIdle

HasOverlap(str1, str2) ==
    /\ overlapArgs' = <<str1, str2>>
    /\ overlapResult' = hasOverlap(str1, str2)
    /\ UNCHANGED <<queryVars, scoreVars, memoVars, routeVars,
                   analyzeVars>>

NextOverlap == \E str1, str2 \in OverlapStrings : HasOverlap(str1, str2)

SpecOverlap == InitOverlap /\ [][NextOverlap]_vars

(***************************************************************************)
(* The portfolio summary: the values the page derives from portfolioData   *)
(* with useMemo when it renders                                            *)
(***************************************************************************)

\* A JavaScript number, in thousandths, and NaN.  The balances of the model
\* have at most three decimals and no exponent, so sums are exact.
JsNumber(m) == [kind |-> "number", milli |-> m]
JsNaN == [kind |-> "NaN", milli |-> 0]

DigitValue(c) == CHOOSE d \in 0..9 : CharAt("0123456789", d + 1) = c

\* The length of the longest prefix of s made of digits.
RECURSIVE digitsLen(_)
digitsLen(s) ==
    IF s = "" \/ CharAt(s, 1) \notin Digits THEN 0
    ELSE 1 + digitsLen(SubSeq(s, 2, Len(s)))

\* The value of a string of digits.
RECURSIVE digitsValue(_)
digitsValue(s) ==
    IF s = "" THEN 0
    ELSE 10 * digitsValue(SubSeq(s, 1, Len(s) - 1)) + DigitValue(CharAt(s, Len(s)))

\* parseFloat of a string: the longest prefix, after leading whitespace, that
\* is a decimal literal (sign, digits, fraction); NaN when there is none.
parseFloat(str) ==
    LET t == trim(str)
        signed == t # "" /\ CharAt(t, 1) \in {"+", "-"}
        sign == IF t # "" /\ CharAt(t, 1) = "-" THEN -1 ELSE 1
        u == IF signed THEN SubSeq(t, 2, Len(t)) ELSE t
        intLen == digitsLen(u)
        afterInt == SubSeq(u, intLen + 1, Len(u))
        hasDot == afterInt # "" /\ CharAt(afterInt, 1) = "."
        fracAll == IF hasDot THEN SubSeq(afterInt, 2, Len(afterInt)) ELSE ""
        fracLen == digitsLen(fracAll)
        frac == SubSeq(fracAll, 1, Min(fracLen, 3))
        fracMilli == IF Len(frac) = 0 THEN 0
                     ELSE IF Len(frac) = 1 THEN 100 * digitsValue(frac)
                     ELSE IF Len(frac) = 2 THEN 10 * digitsValue(frac)
                     ELSE digitsValue(frac)
    IN  IF intLen = 0 /\ fracLen = 0 THEN JsNaN
        ELSE JsNumber(sign * (1000 * digitsValue(SubSeq(u, 1, intLen)) + fracMilli))

\* total + x
jsAdd(a, b) ==
    IF a.kind = "NaN" \/ b.kind = "NaN" THEN JsNaN ELSE JsNumber(a.milli + b.milli)

\* Holdings with a balance: a decimal string, an integer string, no field,
\* null, a string that is no number, a number followed by other text; and a
\* holding whose node.network is null.
bEth == [symbol |-> "ETH", name |-> "Ether", network |-> "ETHEREUM_MAINNET",
         balanceUSD |-> "100.5"]
bDai == [symbol |-> "DAI", name |-> "Dai", network |-> "ETHEREUM_MAINNET",
         balanceUSD |-> "7"]
bNoField == [symbol |-> "AAA", name |-> Null, network |-> "gnosis"]
bNullBalance == [symbol |-> "BBB", name |-> Null, network |-> "gnosis",
                 balanceUSD |-> Null]
bNotANumber == [symbol |-> "CCC", name |-> Null, network |-> "Solana",
                balanceUSD |-> "N/A"]
bNumberPrefix == [symbol |-> "DDD", name |-> Null, network |-> "Solana",
                  balanceUSD |-> "12abc"]
bNoNetwork == [symbol |-> "EEE", name |-> Null, network |-> Null,
               balanceUSD |-> "3"]

BalanceHoldings ==
    {bEth, bDai, bNoField, bNullBalance, bNotANumber, bNumberPrefix, bNoNetwork}

\* The longest portfolio the summary is computed for.
MaxBalanceHoldings == 2

\* parseFloat(edge.node.balanceUSD || 0)
balanceOf(h) ==
    IF "balanceUSD" \notin DOMAIN h \/ h.balanceUSD = Null \/ h.balanceUSD = ""
    THEN JsNumber(0)
    ELSE parseFloat(h.balanceUSD)

\* portfolioData.reduce((total, edge) => total + parseFloat(...), 0)
RECURSIVE sumBalances(_)
sumBalances(portfolio) ==
    IF portfolio = <<>> THEN JsNumber(0)
    ELSE jsAdd(sumBalances(SubSeq(portfolio, 1, Len(portfolio) - 1)),
               balanceOf(portfolio[Len(portfolio)]))

\* The totalPortfolioValue memo.
totalOf(data) ==
    IF data.kind # "value" \/ Len(data.value) = 0 THEN JsNumber(0)
    ELSE sumBalances(data.value)

\* The portfolioByNetwork memo: the edges grouped by edge.node.network.name,
\* in portfolio order; reading .name of a null network is a TypeError.
byNetworkOf(data) ==
    IF data.kind # "value" \/ Len(data.value) = 0 THEN JsValue(<<>>)
    ELSE IF \E i \in 1..Len(data.value) : data.value[i].network = Null THEN JsError
    ELSE LET names == {data.value[i].network : i \in 1..Len(data.value)}
         IN  JsValue([n \in names |->
                         LET onNetwork(h) == h.network = n
                         IN  SelectSeq(data.value, onNetwork)])

InitPortfolio ==
    /\ walletHoldings \in DistinctSeqs(BalanceHoldings, MaxBalanceHoldings)
    /\ tokenData = <<>>
    /\ portfolioData = JsUndefined
    /\ recommendations = JsUndefined
    /\ NoScoring
    /\ NotRendered
    /\ NoOverlapCall
    /\ NotAnalyzing
    /\ RoutesIdle

\* The page renders: the memos are computed in the order of the code; a memo
\* that throws ends the render.
Render ==
    /\ portfolioByNetwork' = byNetworkOf(portfolioData)
    /\ IF portfolioByNetwork'.kind = "error"
       THEN /\ totalPortfolioValue' = JsError
            /\ networksCount' = JsError
       ELSE /\ totalPortfolioValue' = totalOf(portfolioData)
            /\ networksCount' = JsNumber(1000 * Cardinality(DOMAIN portfolioByNetwork'.value))
    /\ UNCHANGED <<queryVars, scoreVars, overlapVars, routeVars,
                   analyzeVars>>

NextPortfolio ==
    \/ FetchPortfolio
    \/ Render

SpecPortfolio == InitPortfolio /\ [][NextPortfolio]_vars

(***************************************************************************)
(* The Zapper proxy's in-memory rate limiter: SimpleRateLimiter.check      *)
(* Times are Date.now() in milliseconds.                                   *)
(***************************************************************************)

\* new SimpleRateLimiter(10, 10000)
maxRequests == 10
windowMs == 10000

\* The values of the x-forwarded-for header the model sends.
Keys == {"10.0.0.1", "10.0.0.2"}

\* The clock readings of the model: a time, the last millisecond of the
\* window that starts at it, the first millisecond after that window, and a
\* time after every window that starts at one of these.
Times == {0, windowMs, windowMs + 1, 2 * windowMs + 2}

\* The count of a key up to which the model goes on sending its requests.
MaxCount == 11

Max(a, b) == IF a > b THEN a ELSE b
\* Math.ceil(a / b) for b > 0
CeilDiv(a, b) == IF a % b = 0 THEN a \div b ELSE (a \div b) + 1

\* Lines 19-23: the entries that have not expired at time `at`.
cleanUp(reqs, at) ==
    [k \in {k \in DOMAIN reqs : ~(reqs[k].resetTime < at)} |-> reqs[k]]

\* countedEntry with a resetTime that every check of the key pushes back.
countedEntry_pushedBack(reqs, key, at) ==
    LET kept == reqs
        entry == IF key \notin DOMAIN kept \/ kept[key].resetTime < at
                 THEN [count |-> 0, resetTime |-> at + windowMs]
                 ELSE [kept[key] EXCEPT !.resetTime = at + windowMs]
    IN  [entry EXCEPT !.count = @ + 1]

\* Lines 26-31: the entry of `key` after the check at time `at`.
countedEntry(reqs, key, at) ==
    LET kept == cleanUp(reqs, at)
        entry == IF key \notin DOMAIN kept \/ kept[key].resetTime < at
                 THEN [count |-> 0, resetTime |-> at + windowMs]
                 ELSE kept[key]
    IN  [entry EXCEPT !.count = @ + 1]

\* requests after check(key) at time `at`.
requestsAfter(reqs, key, at) ==
    LET kept == cleanUp(reqs, at)
    IN  [k \in DOMAIN kept \cup {key} |->
            IF k = key THEN countedEntry(reqs, key, at) ELSE kept[k]]

\* check that admits one request more than maxRequests.
check_oneMore(reqs, key, at) ==
    LET entry == countedEntry(reqs, key, at)
    IN  [success     |-> entry.count <= maxRequests + 1,
         maxRequests |-> maxRequests,
         reset       |-> CeilDiv(entry.resetTime - at, 1000),
         remaining   |-> Max(0, maxRequests - entry.count)]

\* What check(key) returns at time `at`.
check(reqs, key, at) ==
    LET entry == countedEntry(reqs, key, at)
    IN  [success     |-> entry.count <= maxRequests,
         maxRequests |-> maxRequests,
         reset       |-> CeilDiv(entry.resetTime - at, 1000),
         remaining   |-> Max(0, maxRequests - entry.count)]

\* The admitted checks of a key within the last windowMs.
admittedOf(key) == IF key \in DOMAIN admitted THEN admitted[key] ELSE <<>>

InitLimiter ==
    /\ walletHoldings = <<>>
    /\ tokenData = <<>>
    /\ portfolioData = JsUndefined
    /\ recommendations = JsUndefined
    /\ NoScoring
    /\ NotRendered
    /\ NoOverlapCall
    /\ NotAnalyzing
    /\ RoutesIdle

\* Time passes: the entries of `admitted` older than windowMs are dropped.
Tick ==
    /\ \E t \in Times : t > now /\ now' = t
    /\ admitted' =
           [k \in DOMAIN admitted |->
               LET recent(t) == t >= now' - windowMs
               IN  SelectSeq(admitted[k], recent)]
    /\ UNCHANGED <<requests, checked, pageVars, zapperApiKey, networksVars, tokensVars,
                   proxyVars>>

\* A request with the header value `key` reaches the proxy, which calls
\* rateLimiter.check(key).
Check(key) ==
    /\ countedEntry(requests, key, now).count <= MaxCount
    /\ requests' = requestsAfter(requests, key, now)
    /\ checked' = [key |-> key, at |-> now, result |-> check(requests, key, now)]
    /\ admitted' =
           [k \in DOMAIN admitted \cup {key} |->
               IF k = key /\ check(requests, key, now).success
               THEN Append(admittedOf(k), now) ELSE admittedOf(k)]
    /\ UNCHANGED <<now, pageVars, zapperApiKey, networksVars, tokensVars, proxyVars>>

NextLimiter ==
    \/ Tick
    \/ \E key \in Keys : Check(key)

SpecLimiter == InitLimiter /\ [][NextLimiter]_vars

(***************************************************************************)
(* GET /api/networks: the list of Zapper's Network enum values, cached in  *)
(* the module for CACHE_DURATION.  Arrays of network ids are sequences.     *)
(***************************************************************************)

CACHE_DURATION == 24 * 60 * 60 * 1000

DEFAULT_NETWORKS ==
    <<"ETHEREUM_MAINNET", "POLYGON_MAINNET", "OPTIMISM_MAINNET", "ARBITRUM_MAINNET",
      "BINANCE_SMART_CHAIN_MAINNET", "AVALANCHE_MAINNET", "FANTOM_OPERA_MAINNET",
      "SOLANA_MAINNET", "BASE_MAINNET", "BLAST_MAINNET", "ZKSYNC_MAINNET",
      "LINEA_MAINNET">>

\* The enum lists Zapper answers with: none (data without __type), one with
\* two of the defaults and another network, all defaults and another network.
EnumLists ==
    {<<>>,
     <<"ETHEREUM_MAINNET", "MOONBEAM_MAINNET", "SOLANA_MAINNET">>,
     DEFAULT_NETWORKS \o <<"GNOSIS_MAINNET">>}

\* What the awaited fetch can come to: an enum list, a body with GraphQL
\* errors, or an exception (network error, or a response that is not ok).
UpstreamOutcomes ==
    {[kind |-> "ok", enumValues |-> l] : l \in EnumLists}
        \cup {[kind |-> "errors"], [kind |-> "throws"]}

\* The clock readings around the expiry of an entry cached at 0 or at 1.
CacheTimes ==
    {0, 1, CACHE_DURATION - 1, CACHE_DURATION, CACHE_DURATION + 1,
     2 * CACHE_DURATION + 1}

\* includedNetworkIds
includedNetworkIds(networkIds) == unique(networkIds \o DEFAULT_NETWORKS)

\* The responses of the route.  fromCache is "true", "false" or "absent";
\* upstream is what the handler's fetch came to, "none" without a fetch.
cacheResponse(h, at, upstream) ==
    [handler |-> h, at |-> at, upstream |-> upstream, status |-> 200,
     networkIds |-> cachedNetworks.value, fromCache |-> "true"]
errorResponse(h, at, upstream, status) ==
    [handler |-> h, at |-> at, upstream |-> upstream, status |-> status,
     networkIds |-> <<>>, fromCache |-> "absent"]
freshResponse(h, at, networkIds) ==
    [handler |-> h, at |-> at, upstream |-> "ok", status |-> 200,
     networkIds |-> includedNetworkIds(networkIds), fromCache |-> "absent"]
defaultResponse(h, at) ==
    [handler |-> h, at |-> at, upstream |-> "throws", status |-> 200,
     networkIds |-> DEFAULT_NETWORKS, fromCache |-> "false"]

\* A cache entry that stays valid through its last millisecond and one more.
cacheValid_inclusive(at) ==
    cachedNetworks # JsNull /\ at - cacheTimestamp <= CACHE_DURATION

\* if (cachedNetworks && (now - cacheTimestamp) < CACHE_DURATION)
cacheValid(at) ==
    cachedNetworks # JsNull /\ at - cacheTimestamp < CACHE_DURATION

InitNetworks ==
    /\ walletHoldings = <<>>
    /\ tokenData = <<>>
    /\ portfolioData = JsUndefined
    /\ recommendations = JsUndefined
    /\ NoScoring
    /\ NotRendered
    /\ NoOverlapCall
    /\ NotAnalyzing
    /\ NoChecks
    /\ zapperApiKey \in BOOLEAN
    /\ NoNetworksRequest
    /\ NoTokensFetch
    /\ NoPost

\* Time passes, to one of the clock readings in `times`.
Pass(times) ==
    /\ \E t \in times : t > now /\ now' = t
    /\ UNCHANGED <<requests, checked, admitted, zapperApiKey, networksVars,
                   tokensVars, proxyVars, pageVars>>

\* GET runs up to its first await: it answers from a valid cache, answers
\* 500 without an API key, or sends the introspection query.
GetNetworks(h) ==
    /\ pendingGets[h] = Idle
    /\ IF cacheValid(now)
       THEN /\ networksResponse' = cacheResponse(h, now, "none")
            /\ UNCHANGED pendingGets
       ELSE IF ~zapperApiKey
            THEN /\ networksResponse' = errorResponse(h, now, "none", 500)
                 /\ UNCHANGED pendingGets
            ELSE /\ pendingGets' = [pendingGets EXCEPT ![h] = now]
                 /\ UNCHANGED networksResponse
    /\ UNCHANGED <<cachedNetworks, cacheTimestamp, limiterVars, zapperApiKey,
                   tokensVars, proxyVars, pageVars>>

\* The awaited fetch of handler h settles and the handler runs to its end.
NetworksFetched(h, outcome) ==
    /\ pendingGets[h] # Idle
    /\ pendingGets' = [pendingGets EXCEPT ![h] = Idle]
    /\ IF outcome.kind = "ok"
       THEN /\ cachedNetworks' = JsValue(outcome.enumValues)
            /\ cacheTimestamp' = pendingGets[h]
            /\ networksResponse' = freshResponse(h, pendingGets[h], outcome.enumValues)
       ELSE /\ UNCHANGED <<cachedNetworks, cacheTimestamp>>
            /\ networksResponse' =
                   IF cachedNetworks # JsNull
                   THEN cacheResponse(h, pendingGets[h], outcome.kind)
                   ELSE IF outcome.kind = "errors"
                        THEN errorResponse(h, pendingGets[h], "errors", 400)
                        ELSE defaultResponse(h, pendingGets[h])
    /\ UNCHANGED <<limiterVars, zapperApiKey, tokensVars, proxyVars, pageVars>>

NextNetworks ==
    \/ Pass(CacheTimes)
    \/ \E h \in Handlers : GetNetworks(h)
    \/ \E h \in Handlers, outcome \in UpstreamOutcomes : NetworksFetched(h, outcome)

SpecNetworks == InitNetworks /\ [][NextNetworks]_vars

(***************************************************************************)
(* /api/coingecko: fetchTokensWithCategories, which builds the catalog     *)
(* from CoinGecko's markets list and caches it in the module.              *)
(***************************************************************************)

\* CACHE_DURATION of the coingecko route
TOKENS_CACHE_DURATION == 30 * 60 * 1000

\* What the awaited requests to CoinGecko can come to: a markets list, a
\* response that is not ok, a body that is no array, or an exception.
MarketsOutcomes ==
    {[kind |-> "ok", topCoins |-> l] : l \in CoinLists}
        \cup {[kind |-> "notOk"], [kind |-> "noArray"], [kind |-> "throws"]}

\* The clock readings around the expiry of a catalog cached at 0 or at 1.
TokenTimes ==
    {0, 1, TOKENS_CACHE_DURATION - 1, TOKENS_CACHE_DURATION,
     TOKENS_CACHE_DURATION + 1, 2 * TOKENS_CACHE_DURATION + 1}

\* A cached catalog that expires a millisecond early.
tokensCacheValid_early(at) ==
    cachedTokens # JsNull /\ at - tokensTimestamp < TOKENS_CACHE_DURATION - 1

\* if (cachedTokens && (Date.now() - cacheTimestamp) < CACHE_DURATION)
tokensCacheValid(at) ==
    cachedTokens # JsNull /\ at - tokensTimestamp < TOKENS_CACHE_DURATION

\* What a call returns: upstream is what its request came to, "none"
\* without a request.
returned(h, upstream, value) ==
    [caller |-> h, at |-> now, upstream |-> upstream, value |-> value]

InitTokens ==
    /\ walletHoldings = <<>>
    /\ tokenData = <<>>
    /\ portfolioData = JsUndefined
    /\ recommendations = JsUndefined
    /\ NoScoring
    /\ NotRendered
    /\ NoOverlapCall
    /\ NotAnalyzing
    /\ RoutesIdle

\* fetchTokensWithCategories runs up to its first await: it returns a
\* valid cached catalog or requests the markets list.
FetchTokens(h) ==
    /\ ~pendingFetches[h]
    /\ IF tokensCacheValid(now)
       THEN /\ tokensReturned' = returned(h, "none", cachedTokens.value)
            /\ UNCHANGED pendingFetches
       ELSE /\ pendingFetches' = [pendingFetches EXCEPT ![h] = TRUE]
            /\ UNCHANGED tokensReturned
    /\ UNCHANGED <<cachedTokens, tokensTimestamp, limiterVars, zapperApiKey,
                   networksVars, proxyVars, pageVars>>

\* The awaited requests of caller h settle (the categories list is not
\* used) and the call runs to its end.
TokensFetched(h, outcome) ==
    /\ pendingFetches[h]
    /\ pendingFetches' = [pendingFetches EXCEPT ![h] = FALSE]
    /\ IF outcome.kind = "ok"
       THEN /\ cachedTokens' = JsValue(enrichedCoins(outcome.topCoins))
            /\ tokensTimestamp' = now
            /\ tokensReturned' = returned(h, "ok", enrichedCoins(outcome.topCoins))
       ELSE /\ UNCHANGED <<cachedTokens, tokensTimestamp>>
            /\ tokensReturned' =
                   returned(h, outcome.kind,
                            IF cachedTokens # JsNull THEN cachedTokens.value
                            ELSE hardcodedTokens)
    /\ UNCHANGED <<limiterVars, zapperApiKey, networksVars, proxyVars, pageVars>>

NextTokens ==
    \/ Pass(TokenTimes)
    \/ \E h \in Handlers : FetchTokens(h)
    \/ \E h \in Handlers, outcome \in MarketsOutcomes : TokensFetched(h, outcome)

SpecTokens == InitTokens /\ [][NextTokens]_vars

(***************************************************************************)
(* POST /api/zapper: the proxy that retries once without the networks      *)
(* Zapper rejected.  GraphQL error messages are strings, matched as the    *)
(* route matches them.                                                     *)
(***************************************************************************)

\* Values of Zapper's Network enum, and names that are not.
EnumNetworks == {"ETHEREUM_MAINNET", "BASE_MAINNET"}
NotInEnum == {"ETHEREUM", "BASE"}

\* The longest networks array of a request body.
MaxNetworks == 2

RECURSIVE SeqsUpTo(_, _)
SeqsUpTo(S, n) ==
    IF n = 0 THEN {<<>>}
    ELSE LET shorter == SeqsUpTo(S, n - 1)
         IN  shorter \cup {Append(q, x) : q \in shorter, x \in S}

\* The parsed bodies: query given or not, variables.networks undefined or
\* an array.
Bodies ==
    {[query |-> q, networks |-> n] :
        q \in BOOLEAN,
        n \in {JsUndefined}
                \cup {JsValue(l) : l \in SeqsUpTo(EnumNetworks \cup NotInEnum,
                                                  MaxNetworks)}}

\* The message of the error for an invalid value of the variable
\* $networks, with or without a suggested enum value.
variableMessage(invalid, suggestion) ==
    "Variable \"$networks\" got invalid value \"" \o invalid
        \o "\" at \"networks\"; Value \"" \o invalid
        \o "\" does not exist in \"Network\" enum."
        \o (IF suggestion = Null THEN ""
            ELSE " Did you mean the enum value \"" \o suggestion \o "\"?")

\* The message of the error for an invalid enum literal in the query text.
literalMessage(invalid) ==
    "Value \"" \o invalid \o "\" does not exist in \"Network\" enum."

\* The errors Zapper answers with.  `about`, `invalid` and `suggestion` say
\* what the message was made from; the route reads `message` only.
GraphQLErrors ==
    {[message |-> variableMessage("ETHEREUM", "ETHEREUM_MAINNET"),
      about |-> "variable", invalid |-> "ETHEREUM", suggestion |-> "ETHEREUM_MAINNET"],
     [message |-> variableMessage("BASE", "BASE_MAINNET"),
      about |-> "variable", invalid |-> "BASE", suggestion |-> "BASE_MAINNET"],
     [message |-> variableMessage("BASE", Null),
      about |-> "variable", invalid |-> "BASE", suggestion |-> Null],
     [message |-> literalMessage("ETHEREUM"),
      about |-> "literal", invalid |-> Null, suggestion |-> Null],
     [message |-> "Cannot query field \"tokens\" on type \"Query\".",
      about |-> "field", invalid |-> Null, suggestion |-> Null]}

\* The errors arrays of an answer: one error or two.
ErrorLists ==
    {<<e>> : e \in GraphQLErrors} \cup {<<e, f>> : e, f \in GraphQLErrors}

\* What an awaited fetch to Zapper can come to.
ZapperOutcomes ==
    {[kind |-> "data"], [kind |-> "notOk"], [kind |-> "throws"]}
        \cup {[kind |-> "errors", errors |-> e] : e \in ErrorLists}

\* message.match(/<prefix>([^"]+)"/): the first capture group, or Null
\* without a match.
matchQuoted(message, prefix) ==
    LET n == Len(prefix)
        quoteAfter(i) ==
            {j \in (i + n)..Len(message) : CharAt(message, j) = "\""}
        firstQuote(i) ==
            CHOOSE j \in quoteAfter(i) : \A k \in quoteAfter(i) : j <= k
        starts ==
            {i \in 1..(Len(message) - n) :
                /\ SubSeq(message, i, i + n - 1) = prefix
                /\ quoteAfter(i) # {}
                /\ firstQuote(i) > i + n}
    IN  IF starts = {} THEN Null
        ELSE LET i == CHOOSE a \in starts : \A b \in starts : a <= b
             IN  SubSeq(message, i + n, firstQuote(i) - 1)

\* What the route reads from the messages, evaluated once.
messageMemo ==
    [e \in GraphQLErrors |->
        [enum |-> includes(e.message, "does not exist in \"Network\" enum"),
         suggested |-> matchQuoted(e.message, "Did you mean the enum value \""),
         invalid |-> matchQuoted(e.message, "got invalid value \"")]] @@ <<>>

\* invalidNetworkErrors
invalidNetworkErrors(errors) ==
    SelectSeq(errors, LAMBDA e : messageMemo[e].enum)

\* Array.from(suggestedNetworks)
suggestedNetworks(errors) ==
    LET found == invalidNetworkErrors(errors)
    IN  unique(SelectSeq([i \in 1..Len(found) |-> messageMemo[found[i]].suggested],
                         LAMBDA n : n # Null))

\* invalidNetworks
invalidNetworks(errors) ==
    LET found == invalidNetworkErrors(errors)
    IN  SelectSeq([i \in 1..Len(found) |-> messageMemo[found[i]].invalid],
                  LAMBDA n : n # Null)

\* networks followed by those of `more` that it does not include.
RECURSIVE pushMissing(_, _)
pushMissing(networks, more) ==
    IF more = <<>> THEN networks
    ELSE pushMissing(IF Head(more) \in Range(networks) THEN networks
                     ELSE Append(networks, Head(more)),
                     Tail(more))

\* validNetworks as the retry sends it.
validNetworks(networks, errors) ==
    pushMissing(SelectSeq(networks,
                          LAMBDA n : n \notin Range(invalidNetworks(errors))),
                suggestedNetworks(errors))

\* The condition of line 131 with <= for <.
retries_upToAll(networks, errors) ==
    /\ networks # JsUndefined
    /\ Len(networks.value) > 0
    /\ Len(invalidNetworkErrors(errors)) > 0
    /\ Len(invalidNetworkErrors(errors)) <= Len(networks.value)

\* The conditions of lines 116 and 131: the request is sent once more.
retries(networks, errors) ==
    /\ networks # JsUndefined
    /\ Len(networks.value) > 0
    /\ Len(invalidNetworkErrors(errors)) > 0
    /\ Len(invalidNetworkErrors(errors)) < Len(networks.value)

\* A response of the proxy; errors are the GraphQL errors it answers to.
proxyResponse(status, message, errors) ==
    [status |-> status, error |-> message, errors |-> errors]

InitProxy ==
    /\ walletHoldings = <<>>
    /\ tokenData = <<>>
    /\ portfolioData = JsUndefined
    /\ recommendations = JsUndefined
    /\ NoScoring
    /\ NotRendered
    /\ NoOverlapCall
    /\ NotAnalyzing
    /\ NoChecks
    /\ zapperApiKey \in BOOLEAN
    /\ NoNetworksRequest
    /\ NoTokensFetch
    /\ NoPost

\* A POST arrives and runs up to its first fetch.  `limited`: the rate
\* limiter is configured and denies; `parsed`: request.json() resolves.
Post(limited, parsed, body) ==
    /\ proxyStage = "idle"
    /\ zapperAnswers' = <<>>
    /\ proxyBody' = IF parsed THEN body ELSE <<>>
    /\ IF limited
       THEN /\ proxyResponses' = <<proxyResponse(429, "Rate limit exceeded", <<>>)>>
            /\ upstreamRequests' = <<>>
            /\ proxyStage' = "done"
       ELSE IF ~zapperApiKey
       THEN /\ proxyResponses' =
                   <<proxyResponse(500, "Server configuration error: Missing API key", <<>>)>>
            /\ upstreamRequests' = <<>>
            /\ proxyStage' = "done"
       ELSE IF ~parsed
       THEN /\ proxyResponses' =
                   <<proxyResponse(500, "Failed to fetch portfolio data", <<>>)>>
            /\ upstreamRequests' = <<>>
            /\ proxyStage' = "done"
       ELSE IF ~body.query
       THEN /\ proxyResponses' = <<proxyResponse(400, "Missing GraphQL query", <<>>)>>
            /\ upstreamRequests' = <<>>
            /\ proxyStage' = "done"
       ELSE /\ proxyResponses' = <<>>
            /\ upstreamRequests' = <<body.networks>>
            /\ proxyStage' = "first"
    /\ UNCHANGED <<limiterVars, zapperApiKey, networksVars, tokensVars, pageVars>>

\* The first fetch settles.
FirstSettles(outcome) ==
    /\ proxyStage = "first"
    /\ zapperAnswers' = Append(zapperAnswers, outcome)
    /\ IF outcome.kind = "errors" /\ retries(proxyBody.networks, outcome.errors)
       THEN /\ upstreamRequests' =
                   Append(upstreamRequests,
                          JsValue(validNetworks(proxyBody.networks.value,
                                                outcome.errors)))
            /\ proxyResponses' = <<>>
            /\ proxyStage' = "retry"
       ELSE /\ proxyResponses' =
                   Append(proxyResponses,
                          IF outcome.kind \in {"notOk", "throws"}
                          THEN proxyResponse(500, "Failed to fetch portfolio data", <<>>)
                          ELSE IF outcome.kind = "data"
                          THEN proxyResponse(200, Null, <<>>)
                          ELSE IF Len(invalidNetworkErrors(outcome.errors)) > 0
                          THEN proxyResponse(400, "Invalid networks specified",
                                             outcome.errors)
                          ELSE proxyResponse(400, "GraphQL Error", outcome.errors))
            /\ UNCHANGED upstreamRequests
            /\ proxyStage' = "done"
    /\ UNCHANGED <<proxyBody, limiterVars, zapperApiKey, networksVars, tokensVars,
                   pageVars>>

\* The retry settles.
RetrySettles(outcome) ==
    /\ proxyStage = "retry"
    /\ zapperAnswers' = Append(zapperAnswers, outcome)
    /\ proxyResponses' =
           Append(proxyResponses,
                  IF outcome.kind \in {"notOk", "throws"}
                  THEN proxyResponse(500, "Failed to fetch portfolio data", <<>>)
                  ELSE IF outcome.kind = "data" THEN proxyResponse(200, Null, <<>>)
                  ELSE proxyResponse(400, "GraphQL Error", outcome.errors))
    /\ proxyStage' = "done"
    /\ UNCHANGED <<proxyBody, upstreamRequests, limiterVars, zapperApiKey,
                   networksVars, tokensVars, pageVars>>

NextProxy ==
    \/ \E limited \in BOOLEAN, parsed \in BOOLEAN, body \in Bodies :
           Post(limited, parsed, body)
    \/ \E outcome \in ZapperOutcomes : FirstSettles(outcome)
    \/ \E outcome \in ZapperOutcomes : RetrySettles(outcome)

\* A fetch settles: it resolves, or rejects at the latest when it times out.
SpecProxy ==
    /\ InitProxy
    /\ [][NextProxy]_vars
    /\ WF_vars(\E outcome \in ZapperOutcomes : FirstSettles(outcome))
    /\ WF_vars(\E outcome \in ZapperOutcomes : RetrySettles(outcome))

(***************************************************************************)
(* The Analyze button: handleAnalyze, its attemptFetch and the timer that  *)
(* looks whether the portfolio arrived.  The callbacks read portfolioData  *)
(* of the render that created handleAnalyze: the run's closure.            *)
(***************************************************************************)

maxRetries == 2

NoTokensFound ==
    "No tokens found for this wallet address across all supported networks."
NoSolanaTokens ==
    "No tokens found for this Solana wallet. Note that the Zapper API may have limited support for Solana wallets."
PortfolioApiError == "Portfolio API error"
ErrorAnalyzing == "Error analyzing wallet"

\* detectedNetwork for the addresses a user types.
DetectedNetworks == {"Solana", "Ethereum", ""}

\* latestPortfolioData && latestPortfolioData.length > 0
hasHoldings(data) == data.kind = "value" /\ Len(data.value) > 0

\* The timer retries through its last attempt too.
retriesAgain_inclusive(retryCount) == retryCount <= maxRetries

\* retryCount < maxRetries
retriesAgain(retryCount) == retryCount < maxRetries

InitAnalyze ==
    /\ walletHoldings \in Portfolios
    /\ tokenData = <<>>
    /\ portfolioData = JsUndefined
    /\ recommendations = JsUndefined
    /\ NoScoring
    /\ NotRendered
    /\ NoOverlapCall
    /\ NotAnalyzing
    /\ RoutesIdle

\* The user types the address of another wallet while no run is under
\* way: the portfolio query has a new key and no data.
ChangeAddress ==
    /\ ~isAnalyzing
    /\ \E holdings \in Portfolios :
           holdings # walletHoldings /\ walletHoldings' = holdings
    /\ portfolioData' = JsUndefined
    /\ recommendations' = JsUndefined
    /\ portfolioByNetwork' = JsUndefined
    /\ totalPortfolioValue' = JsUndefined
    /\ networksCount' = JsUndefined
    /\ UNCHANGED <<tokenData, scoreVars, overlapVars, analyzeVars, routeVars>>

\* A click on the enabled button: handleAnalyze runs up to the await of
\* its first fetchPortfolio().
ClickAnalyze(network) ==
    /\ ~isAnalyzing
    /\ isAnalyzing' = TRUE
    /\ error' = Null
    /\ analyzeRun' = [stage |-> "fetching", retryCount |-> 0,
                      detectedNetwork |-> network, closure |-> portfolioData,
                      fetches |-> 1, foundAt |-> 0]
    /\ UNCHANGED <<queryVars, scoreVars, memoVars, overlapVars, routeVars>>

\* fetchPortfolio() resolves with the holdings of the wallet; attemptFetch
\* counts the attempt and sets the timer.
FetchResolves ==
    /\ analyzeRun.stage = "fetching"
    /\ error' = Null
    /\ portfolioData' = JsValue(walletHoldings)
    /\ recommendations' =
           IF portfolioData' = portfolioData THEN recommendations ELSE JsUndefined
    /\ portfolioByNetwork' =
           IF portfolioData' = portfolioData THEN portfolioByNetwork ELSE JsUndefined
    /\ totalPortfolioValue' =
           IF portfolioData' = portfolioData THEN totalPortfolioValue ELSE JsUndefined
    /\ networksCount' =
           IF portfolioData' = portfolioData THEN networksCount ELSE JsUndefined
    /\ analyzeRun' =
           [analyzeRun EXCEPT
               !.stage = "timer",
               !.retryCount = @ + 1,
               !.foundAt = IF @ = 0 /\ Len(walletHoldings) > 0
                           THEN analyzeRun.fetches ELSE @]
    /\ UNCHANGED <<walletHoldings, tokenData, scoreVars, overlapVars, isAnalyzing,
                   routeVars>>

\* The query function throws (lines 888-892); fetchPortfolio() resolves
\* with the error and the data as it was.
FetchFails ==
    /\ analyzeRun.stage = "fetching"
    /\ error' = PortfolioApiError
    /\ analyzeRun' = [analyzeRun EXCEPT !.stage = "timer", !.retryCount = @ + 1]
    /\ UNCHANGED <<queryVars, scoreVars, memoVars, overlapVars, isAnalyzing, routeVars>>

\* fetchPortfolio() rejects: the catch block of attemptFetch.
FetchRejects ==
    /\ analyzeRun.stage = "fetching"
    /\ isAnalyzing' = FALSE
    /\ error' = IF /\ analyzeRun.detectedNetwork = "Solana"
                   /\ ~hasHoldings(analyzeRun.closure)
                THEN NoSolanaTokens ELSE ErrorAnalyzing
    /\ analyzeRun' = [analyzeRun EXCEPT !.stage = "ended"]
    /\ UNCHANGED <<queryVars, scoreVars, memoVars, overlapVars, routeVars>>

\* The callback of setTimeout(..., 1500).
TimerFires ==
    /\ analyzeRun.stage = "timer"
    /\ IF hasHoldings(analyzeRun.closure)
       THEN /\ error' = Null
            /\ isAnalyzing' = FALSE
            /\ analyzeRun' = [analyzeRun EXCEPT !.stage = "ended"]
       ELSE IF retriesAgain(analyzeRun.retryCount)
       THEN /\ analyzeRun' = [analyzeRun EXCEPT !.stage = "fetching",
                                                !.fetches = @ + 1]
            /\ UNCHANGED <<error, isAnalyzing>>
       ELSE /\ error' = NoTokensFound
            /\ isAnalyzing' = FALSE
            /\ analyzeRun' = [analyzeRun EXCEPT !.stage = "ended"]
    /\ UNCHANGED <<queryVars, scoreVars, memoVars, overlapVars, routeVars>>

NextAnalyze ==
    \/ ChangeAddress
    \/ \E network \in DetectedNetworks : ClickAnalyze(network)
    \/ FetchResolves
    \/ FetchFails
    \/ FetchRejects
    \/ TimerFires

\* A fetch settles and a timer fires.
SpecAnalyze ==
    /\ InitAnalyze
    /\ [][NextAnalyze]_vars
    /\ WF_vars(FetchResolves \/ FetchFails \/ FetchRejects)
    /\ WF_vars(TimerFires)

(***************************************************************************)
(* The query function for portfolios that list their holdings in every     *)
(* order                                                                   *)
(***************************************************************************)

\* The catalogs: the universe in the orders of catalogOrders, whole or
\* without one token.
OrderCatalogs ==
    {Pick(order, I) :
        order \in catalogOrders,
        I \in {J \in SUBSET (1..Cardinality(Tokens)) :
                  Cardinality(J) >= Cardinality(Tokens) - 1}}

InitOrder ==
    /\ walletHoldings \in OrderPortfolios
    /\ tokenData \in OrderCatalogs
    /\ portfolioData = JsUndefined
    /\ recommendations = JsUndefined
    /\ NoScoring
    /\ NotRendered
    /\ NoOverlapCall
    /\ NotAnalyzing
    /\ RoutesIdle

NextOrder ==
    \/ FetchPortfolio
    \/ ExtractTypes
    \/ Recommend

SpecOrder == InitOrder /\ [][NextOrder]_vars

(***************************************************************************)
(* The recommendations query with the catalog /api/coingecko returns       *)
(***************************************************************************)

InitLive ==
    /\ walletHoldings \in Portfolios
    /\ tokenData = <<>>
    /\ portfolioData = JsUndefined
    /\ recommendations = JsUndefined
    /\ NoScoring
    /\ NotRendered
    /\ NoOverlapCall
    /\ NotAnalyzing
    /\ RoutesIdle

\* The page's GET /api/coingecko is answered with what
\* fetchTokensWithCategories returned (lines 305-307 of the route, 905-918
\* of the page).
LoadCatalog ==
    /\ tokensReturned # <<>>
    /\ tokenData' = tokensReturned.value
    /\ recommendations' =
           IF tokenData' = tokenData THEN recommendations ELSE JsUndefined
    /\ UNCHANGED <<walletHoldings, portfolioData, scoreVars, memoVars, overlapVars,
                   analyzeVars, routeVars>>

NextLive ==
    \/ FetchTokens(1)
    \/ \E outcome \in MarketsOutcomes : TokensFetched(1, outcome)
    \/ LoadCatalog
    \/ FetchPortfolio
    \/ Recommend

SpecLive == InitLive /\ [][NextLive]_vars

(***************************************************************************)
(* Properties of the recommendation list                                   *)
(***************************************************************************)

\* The recommendations query has data that is a list; the list, the portfolio
\* it was computed for and the lowercase symbols that portfolio holds.
HasList == recommendations.kind = "value"
TheList == recommendations.value
Portfolio == portfolioData.value
HeldLower == {toLowerCase(Portfolio[j].symbol) : j \in 1..Len(Portfolio)}

\* The catalog by position: the score of an entry, its primary category, and
\* the order of the score-sorted list (higher score first, catalog order among
\* equal scores).
CatalogIndex == 1..Len(tokenData)
ScoreAt(i) == portfolioScoreMemo[Portfolio, tokenData[i]]
PrimaryCategory(token) ==
    IF "categories" \notin DOMAIN token \/ token.categories = <<>> THEN ""
    ELSE toLowerCase(token.categories[1])
Positive == {i \in CatalogIndex : ScoreAt(i) > 0}
RankedBefore(i, j) ==
    ScoreAt(i) > ScoreAt(j) \/ (ScoreAt(i) = ScoreAt(j) /\ i < j)
RankIn(X, i) == Cardinality({j \in X : RankedBefore(j, i)}) + 1

RankedPath == HasList /\ Positive # {}
FallbackPath == HasList /\ Positive = {}

\* The entry at place k of the list is the catalog entry at position i.
EntryIs(k, i) ==
    /\ k \in 1..Len(TheList)
    /\ TheList[k].id = tokenData[i].id
    /\ TheList[k].symbol = tokenData[i].symbol

\* The catalog entries the fallback may return: not held, not usdt, not usdc.
Eligible ==
    {i \in CatalogIndex :
        /\ toLowerCase(tokenData[i].symbol) \notin HeldLower
        /\ toLowerCase(tokenData[i].symbol) \notin {"usdt", "usdc"}}

\* The candidates that are the first of their primary category in the sorted
\* list, the ones of them the diversity pass keeps, and the candidates the
\* fill pass takes from the rest of the sorted list.
CategoryLeaders ==
    {i \in Positive :
        \A j \in Positive \ {i} :
            PrimaryCategory(tokenData[j]) = PrimaryCategory(tokenData[i])
                => RankedBefore(i, j)}
DiversityPicks == {i \in CategoryLeaders : RankIn(CategoryLeaders, i) <= N}
Remaining == Positive \ DiversityPicks
FillCount == Min(N, Cardinality(Positive)) - Cardinality(DiversityPicks)
FillPicks == {i \in Remaining : RankIn(Remaining, i) <= FillCount}

\* C1. Exclusion: no entry of a returned list, on the ranked path or on the
\* fallback path, has a symbol whose lowercase form is the lowercase symbol of
\* a holding of the portfolio.
ExclusionInvariant ==
    HasList =>
        \A k \in 1..Len(TheList) : toLowerCase(TheList[k].symbol) \notin HeldLower

\* A list was ranked for a catalog that contains a held token whose symbol is
\* spelled in another case than the holding's.
ExclusionWitness ==
    /\ RankedPath
    /\ \E i \in CatalogIndex :
          /\ toLowerCase(tokenData[i].symbol) \in HeldLower
          /\ \A j \in 1..Len(Portfolio) : Portfolio[j].symbol # tokenData[i].symbol

\* C2. Bound: a returned list has at most N entries and at most as many
\* entries as the catalog, on the ranked path and on the fallback path.
BoundInvariant ==
    HasList => Len(TheList) <= N /\ Len(TheList) <= Len(tokenData)

\* A full list was returned from a catalog with more than N entries the path
\* taken could have returned.
BoundWitness ==
    /\ HasList
    /\ Len(TheList) = N
    /\ \/ Cardinality(Positive) > N
       \/ Positive = {} /\ Cardinality(Eligible) > N

\* C3. Uniqueness: the ids of a catalog being pairwise distinct, every id
\* occurs at most once in a returned list; the fill pass re-adds no candidate
\* of the diversity pass.
UniqueIds ==
    (HasList /\ \A i, j \in CatalogIndex : tokenData[i].id = tokenData[j].id => i = j)
        => \A k, l \in 1..Len(TheList) : TheList[k].id = TheList[l].id => k = l

\* The fill pass has added entries to a list of the diversity pass.
UniqueIdsWitness ==
    /\ RankedPath
    /\ Cardinality(DiversityPicks) < Len(TheList)
    /\ Cardinality(DiversityPicks) > 0

\* C4 as the specification states it: for an empty portfolio the query
\* function returns the first N catalog entries that are neither usdt nor
\* usdc, in catalog order.
EmptyPortfolioFallback ==
    (portfolioData.kind = "value" /\ Len(Portfolio) = 0)
        => LET result == queryFn(portfolioData, tokenData)
           IN  /\ result.kind = "value"
               /\ Len(result.value) = Min(N, Cardinality(Eligible))
               /\ \A i \in Eligible :
                     RankIn(Eligible, i) <= N =>
                         result.value[Cardinality({j \in Eligible : j < i}) + 1]
                             = tokenData[i]

\* C4 as the code has it: for an empty portfolio the query function returns
\* null, whatever the catalog, and the recommendations query, which is not
\* enabled, has no data: no fallback list is produced.
EmptyPortfolioNoResult ==
    (portfolioData.kind = "value" /\ Len(Portfolio) = 0)
        => /\ queryFn(portfolioData, tokenData) = JsNull
           /\ ~queryEnabled(portfolioData)
           /\ recommendations = JsUndefined

\* The portfolio query resolved with an empty portfolio while the catalog has
\* N entries the fallback could return.
EmptyPortfolioWitness ==
    /\ portfolioData.kind = "value"
    /\ Len(Portfolio) = 0
    /\ Cardinality(Eligible) >= N

\* C5. Fallback content: when the query function ran and no catalog entry has
\* a score above 0, the list is exactly the first N catalog entries, in
\* catalog order, that are not held and are neither usdt nor usdc.
FallbackContent ==
    FallbackPath =>
        /\ Len(TheList) = Min(N, Cardinality(Eligible))
        /\ \A i \in Eligible :
              Cardinality({j \in Eligible : j < i}) < N =>
                  /\ Cardinality({j \in Eligible : j < i}) + 1 \in 1..Len(TheList)
                  /\ TheList[Cardinality({j \in Eligible : j < i}) + 1] = tokenData[i]

\* The fallback returned N entries, passing over a catalog entry that is held
\* or a stablecoin and leaving out an entry after the first N.
FallbackContentWitness ==
    /\ FallbackPath
    /\ Cardinality(Eligible) > N
    /\ \E i \in CatalogIndex \ Eligible : \E j \in Eligible : i < j

\* C6 as the specification states it: on the fallback path a catalog of at
\* least N entries yields exactly N entries.
FallbackCompleteByCatalog ==
    (FallbackPath /\ Len(tokenData) >= N) => Len(TheList) = N

\* C6 as the code has it: on the fallback path the list has fewer than N
\* entries only if fewer than N catalog entries are neither held nor usdt nor
\* usdc; its length is the smaller of N and the number of such entries.
FallbackCompleteByEligible ==
    FallbackPath =>
        /\ Len(TheList) = Min(N, Cardinality(Eligible))
        /\ (Len(TheList) < N => Cardinality(Eligible) < N)

\* The fallback returned fewer than N entries from a catalog of N or more.
FallbackCompleteWitness ==
    /\ FallbackPath
    /\ Len(tokenData) >= N
    /\ Len(TheList) < N

\* C7. Diversity preference: on the ranked path the list starts with the
\* first candidate of every primary category, in score order, up to N of
\* them; when the candidates span N or more primary categories the list is N
\* entries of pairwise distinct primary categories; and for the catalog
\* a(defi), b(defi), c(nft) with equal scores above 0 a selection of 2 is one
\* of a and b together with c.
DiversityPreference ==
    RankedPath =>
        /\ \A i \in DiversityPicks : EntryIs(RankIn(CategoryLeaders, i), i)
        /\ \A k, l \in 1..Min(Len(TheList), Cardinality(DiversityPicks)) :
              PrimaryCategory(TheList[k]) = PrimaryCategory(TheList[l]) => k = l
        /\ Cardinality(CategoryLeaders) >= N =>
              /\ Len(TheList) = N
              /\ \A k, l \in 1..Len(TheList) :
                    PrimaryCategory(TheList[k]) = PrimaryCategory(TheList[l]) => k = l
        /\ ({tokenData[i] : i \in CatalogIndex} = {tA, tB, tC}
                /\ \A i \in CatalogIndex : ScoreAt(i) = ScoreAt(1)) =>
              LET two == selectDiverse(scoredTokensOf(Portfolio, tokenData), 2)
              IN  /\ Len(two) = 2
                  /\ {two[k].id : k \in 1..2} \in {{"a", "c"}, {"b", "c"}}
                  /\ {TheList[k].id : k \in 1..2} = {two[k].id : k \in 1..2}

\* A list of N primary categories was returned that leaves out a candidate
\* with a higher score than one it includes, and keeps one entry of two
\* candidates whose categories differ only in case.
DiversityWitness ==
    /\ RankedPath
    /\ Cardinality(CategoryLeaders) >= N
    /\ \E i \in Positive : \E k \in 1..Len(TheList) :
          /\ \A l \in 1..Len(TheList) : TheList[l].id # tokenData[i].id
          /\ ScoreAt(i) > TheList[k].score

\* The catalog a, b, c of the example was ranked with equal scores above 0.
DiversityExampleWitness ==
    /\ RankedPath
    /\ {tokenData[i] : i \in CatalogIndex} = {tA, tB, tC}
    /\ \A i \in CatalogIndex : ScoreAt(i) = ScoreAt(1)

\* C8. Fill pass: on the ranked path the list has min(N, number of candidates
\* with a score above 0) entries, and the entries after those of the
\* diversity pass are the highest ranked of the candidates of the whole
\* sorted list that the diversity pass did not choose, in score order: the
\* fill from the first N of the sorted list is the fill from the whole list.
FillPass ==
    RankedPath =>
        /\ Len(TheList) = Min(N, Cardinality(Positive))
        /\ \A i \in FillPicks :
              EntryIs(Cardinality(DiversityPicks) + RankIn(Remaining, i), i)
        /\ TheList =
              LET scoredTokens == scoredTokensOf(Portfolio, tokenData)
                  firstPass == diversityPass(scoredTokens, <<>>, N)
              IN  fillPass(firstPass, scoredTokens, N)

\* The fill pass ran over a sorted list longer than N, one of whose diversity
\* picks lies after the first N.
FillPassWitness ==
    /\ RankedPath
    /\ Cardinality(Positive) > N
    /\ FillPicks # {}
    /\ \E i \in DiversityPicks : RankIn(Positive, i) > N

\* The catalog position of the entry at place k of the list.
PositionOf(k) == CHOOSE i \in CatalogIndex : tokenData[i].id = TheList[k].id

\* C17. Output order: on the ranked path every entry of the list is a
\* candidate with a score above 0 and carries that score; the first
\* entries are the diversity picks and the rest the fill picks; each of the
\* two parts is in descending order of score, with catalog order among equal
\* scores; and the first entry is the candidate with the highest score that
\* comes earliest in the catalog.
OutputOrder ==
    RankedPath =>
        LET d == Cardinality(DiversityPicks)
        IN  /\ \A k \in 1..Len(TheList) :
                  /\ PositionOf(k) \in Positive
                  /\ TheList[k].score = ScoreAt(PositionOf(k))
                  /\ k <= d <=> PositionOf(k) \in DiversityPicks
                  /\ k > d <=> PositionOf(k) \in FillPicks
            /\ \A k, l \in 1..Len(TheList) :
                  (k < l /\ (l <= d \/ k > d)) =>
                      \/ TheList[k].score > TheList[l].score
                      \/ /\ TheList[k].score = TheList[l].score
                         /\ PositionOf(k) < PositionOf(l)
            /\ Len(TheList) >= 1
            /\ \A j \in Positive \ {PositionOf(1)} :
                  \/ ScoreAt(PositionOf(1)) > ScoreAt(j)
                  \/ ScoreAt(PositionOf(1)) = ScoreAt(j) /\ PositionOf(1) < j

\* A list was returned whose first entry is not the first positive candidate
\* of the catalog, with two diversity picks of equal score and a fill pick
\* that has a higher score than a diversity pick before it.
OutputOrderWitness ==
    /\ RankedPath
    /\ \E j \in Positive : j < PositionOf(1)
    /\ \E i, j \in DiversityPicks : i # j /\ ScoreAt(i) = ScoreAt(j)
    /\ \E i \in FillPicks : \E j \in DiversityPicks : ScoreAt(i) > ScoreAt(j)

(***************************************************************************)
(* Properties of the scorer                                                *)
(***************************************************************************)

\* C9. Score monotonicity: for a candidate that is not held, the score over a
\* tag set with one more tag is not less than the score over the tag set.
ScoreMonotone ==
    toLowerCase(scoredToken.symbol) \notin Range(portfolioTokenSymbols)
        => scoreAfter >= scoreBefore

\* A tag that overlaps a category of the candidate was added to a tag set
\* under which the candidate already had a score above 0, and raised it.
ScoreMonotoneWitness ==
    /\ toLowerCase(scoredToken.symbol) \notin Range(portfolioTokenSymbols)
    /\ scoreBefore > 0
    /\ scoreAfter >= scoreBefore + 10
    /\ \E type \in portfolioTokenTypes :
          \E cat \in Range(lowerCategoriesOf(scoredToken)) :
              hasOverlap(cat, toLowerCase(type))

\* The candidate the scorer is applied to is not held.
NotHeldIn(token, heldSymbols) == toLowerCase(token.symbol) \notin Range(heldSymbols)
NotHeld == NotHeldIn(scoredToken, portfolioTokenSymbols)

\* The profile tags the scorer does not skip.
ScoredTypesOf(types) == {type \in types : ~isSkippedType(toLowerCase(type))}
ScoredTypes == ScoredTypesOf(portfolioTokenTypes)

ContainsAny(str, words) == \E w \in words : includes(str, w)
Bonus(applies, points) == IF applies THEN points ELSE 0

\* The six per-tag bonuses for one tag, each at most once.
SixBonuses(type, token, knownNetwork) ==
    LET typeStr == toLowerCase(type)
        cats == Range(lowerCategoriesOf(token))
    IN  Bonus(\E cat \in cats : hasOverlap(cat, typeStr), 10)
          + Bonus(hasOverlap(toLowerCase(token.name), typeStr)
                    \/ hasOverlap(toLowerCase(token.symbol), typeStr), 8)
          + Bonus(knownNetwork /\ \E cat \in cats : hasOverlap(cat, typeStr), 7)
          + Bonus(ContainsAny(typeStr, {"defi", "lend", "yield"})
                    /\ \E cat \in cats :
                          ContainsAny(cat, {"defi", "lend", "yield", "staking"}), 6)
          + Bonus(ContainsAny(typeStr, {"meme", "pepe", "doge"})
                    /\ \E cat \in cats : ContainsAny(cat, {"meme", "pepe", "doge"}), 6)
          + Bonus(ContainsAny(typeStr, {"layer", "chain", "network"})
                    /\ \E cat \in cats :
                          ContainsAny(cat, {"layer", "chain", "network"}), 4)

\* The special-type entries (key, category) that apply to one tag: the key
\* overlaps the tag and the category overlaps a category of the candidate.
SpecialMatches(type, token) ==
    {e \in UNION {{<<key, j>> : j \in 1..Len(specialTypes[key])} :
                     key \in Range(specialTypeKeys)} :
        /\ hasOverlap(toLowerCase(type), e[1])
        /\ \E cat \in Range(lowerCategoriesOf(token)) :
              hasOverlap(cat, specialTypes[e[1]][e[2]])}

\* Both, for every tag and candidate of the scorer's universe, evaluated once.
SixBonusesMemo ==
    [type \in ScoreTypes, tok \in Tokens, knownNetwork \in BOOLEAN |->
        SixBonuses(type, tok, knownNetwork)] @@ <<>>
SpecialMatchesMemo ==
    [type \in ScoreTypes, tok \in Tokens |->
        Cardinality(SpecialMatches(type, tok))] @@ <<>>

Trending(token) ==
    Bonus("price_change_24h" \in DOMAIN token /\ token.price_change_24h > 5, 3)

RECURSIVE SumOver(_, _)
SumOver(S, f) ==
    IF S = {} THEN 0
    ELSE LET x == CHOOSE y \in S : TRUE IN f[x] + SumOver(S \ {x}, f)

\* The score of a candidate made of the six bonuses and the trending bonus.
SixBonusScoreOf(token, types, networks) ==
    SumOver(ScoredTypesOf(types),
            [type \in ScoredTypesOf(types) |->
                SixBonusesMemo[type, token, toLowerCase(type) \in networks]])
        + Trending(token)
SixBonusScore == SixBonusScoreOf(scoredToken, portfolioTokenTypes, networksFound)

\* That score with 5 more for every special-type entry that applies.
FullScoreOf(token, types, networks) ==
    SixBonusScoreOf(token, types, networks)
        + 5 * SumOver(ScoredTypesOf(types),
                      [type \in ScoredTypesOf(types) |-> SpecialMatchesMemo[type, token]])
FullScore == FullScoreOf(scoredToken, portfolioTokenTypes, networksFound)

\* C15 as stated. Score composition: every score computed for a candidate
\* that is not held is the sum over the non-skipped profile tags of the six
\* per-tag bonuses, plus the trending bonus, and nothing else.
ScoreCompositionSixBonuses ==
    [][NotHeldIn(scoredToken', portfolioTokenSymbols')
          => scoreAfter' = SixBonusScoreOf(scoredToken', portfolioTokenTypes',
                                           networksFound')]_vars

\* C15, amended. Score composition: every score computed for a candidate
\* that is not held is the sum over the non-skipped profile tags of the six
\* per-tag bonuses and of 5 for every special-type entry that applies to the
\* tag, plus the trending bonus, and nothing else.
ScoreComposition ==
    [][NotHeldIn(scoredToken', portfolioTokenSymbols')
          => scoreAfter' = FullScoreOf(scoredToken', portfolioTokenTypes',
                                       networksFound')]_vars

\* A candidate that is not held was scored over a tag that earns it one of
\* the six bonuses and a special-type bonus.
ScoreCompositionWitness ==
    /\ NotHeld
    /\ scoreAfter = FullScore
    /\ \E type \in ScoredTypes :
          /\ SixBonusesMemo[type, scoredToken, FALSE] > 0
          /\ SpecialMatchesMemo[type, scoredToken] > 0

\* One string contains the other; the two share a contiguous substring of at
\* least three characters.
Contains(a, b) ==
    \E i \in 1..(Len(a) - Len(b) + 1) : SubSeq(a, i, i + Len(b) - 1) = b
ShareSubstring(a, b) ==
    \E n \in 3..Min(Len(a), Len(b)) :
        \E i \in 1..(Len(a) - n + 1), j \in 1..(Len(b) - n + 1) :
            SubSeq(a, i, i + n - 1) = SubSeq(b, j, j + n - 1)

\* C18. Overlap relation: hasOverlap(a, b) is true exactly when one of a and
\* b contains the other or they share a contiguous substring of at least
\* three characters; hasOverlap(b, a) is the same; and hasOverlap(a, a) is
\* true, for short and empty strings too.
OverlapRelation ==
    overlapArgs # <<>> =>
        LET a == overlapArgs[1]
            b == overlapArgs[2]
        IN  /\ overlapResult <=>
                  (Contains(a, b) \/ Contains(b, a) \/ ShareSubstring(a, b))
            /\ overlapResult <=> hasOverlap(b, a)
            /\ a = b => overlapResult

\* hasOverlap was true of two strings of different lengths neither of which
\* contains the other.
OverlapRelationWitness ==
    /\ overlapArgs # <<>>
    /\ overlapResult
    /\ ~Contains(overlapArgs[1], overlapArgs[2])
    /\ ~Contains(overlapArgs[2], overlapArgs[1])
    /\ Len(overlapArgs[1]) < Len(overlapArgs[2])

(***************************************************************************)
(* Properties of the path the query function takes                         *)
(***************************************************************************)

\* The profile tags of the portfolio, and the catalog entries that are not
\* held.
ProfileTags == UNION {holdingTagsMemo[Portfolio[j]] : j \in 1..Len(Portfolio)}
NotHeldEntries ==
    {i \in CatalogIndex : toLowerCase(tokenData[i].symbol) \notin HeldLower}

\* A tag overlaps a category, the name or the symbol of a token.
TagOverlaps(type, token) ==
    \/ \E cat \in Range(lowerCategoriesOf(token)) : hasOverlap(cat, toLowerCase(type))
    \/ hasOverlap(toLowerCase(token.name), toLowerCase(type))
    \/ hasOverlap(toLowerCase(token.symbol), toLowerCase(type))
TagOverlapsMemo ==
    [type \in TagUniverse, tok \in Tokens |-> TagOverlaps(type, tok)] @@ <<>>

\* No profile tag overlaps a category, the name or the symbol of an entry
\* that is not held.
NoTagOverlap ==
    \A i \in NotHeldEntries : \A type \in ProfileTags :
        ~TagOverlapsMemo[type, tokenData[i]]

\* No profile tag earns an entry that is not held a keyword-family or
\* special-type bonus, and no such entry is trending.
NoOtherBonus ==
    \A i \in NotHeldEntries :
        /\ Trending(tokenData[i]) = 0
        /\ \A type \in ScoredTypesOf(ProfileTags) :
              /\ SixBonusesMemo[type, tokenData[i], FALSE] = 0
              /\ SpecialMatchesMemo[type, tokenData[i]] = 0

\* The fallback list: the first N catalog entries, in catalog order, that are
\* not held and are neither usdt nor usdc.
FallbackList ==
    [k \in 1..Min(N, Cardinality(Eligible)) |->
        tokenData[CHOOSE i \in Eligible : Cardinality({j \in Eligible : j < i}) = k - 1]]

\* C16 as stated. No-overlap fallback: when the query function ran for a
\* portfolio none of whose tags overlaps a category, the name or the symbol
\* of a catalog entry that is not held, the list is the fallback list.
NoOverlapFallback ==
    (recommendations # JsUndefined /\ Len(Portfolio) > 0 /\ NoTagOverlap)
        => HasList /\ TheList = FallbackList

\* C16, amended. No-overlap fallback: when moreover no tag earns such an
\* entry a keyword-family or special-type bonus and no such entry is trending,
\* the list is the fallback list.
NoBonusFallback ==
    (recommendations # JsUndefined /\ Len(Portfolio) > 0 /\ NoTagOverlap
        /\ NoOtherBonus)
        => HasList /\ TheList = FallbackList

\* The fallback list was returned for a portfolio with tags, none of which
\* overlaps an entry that is not held, from a catalog that has a held entry
\* before an entry of the list.
NoBonusFallbackWitness ==
    /\ HasList
    /\ Len(Portfolio) > 0
    /\ ProfileTags # {}
    /\ NoTagOverlap
    /\ NoOtherBonus
    /\ TheList = FallbackList
    /\ \E i \in CatalogIndex \ NotHeldEntries : \E j \in Eligible : i < j

(***************************************************************************)
(* Properties of the tag extractor                                         *)
(***************************************************************************)

\* The extractor has run for the portfolio of the portfolio query.
Extracted == portfolioData.kind = "value" /\ portfolioTokenSymbols # <<>>

\* The holdings of that portfolio, their lowercased names and symbols.
HoldingIndex == 1..Len(Portfolio)
LowerName(h) == IF h.name = Null THEN "" ELSE toLowerCase(h.name)
LowerSymbol(h) == toLowerCase(h.symbol)
LowerNetwork(h) == IF h.network = Null THEN "" ELSE toLowerCase(h.network)
ScamNamed(h) ==
    \E p \in {"airdrop", "claim", "http://", "https://", ".com", ".io", ".org",
              "visit", "free", "website"} : includes(LowerName(h), p)

\* The network tags of a holding: the lowercased network name and, when it
\* has an underscore, the part before the first underscore.
NetworkTagsOf(h) ==
    IF LowerNetwork(h) = "" THEN {}
    ELSE {LowerNetwork(h)} \cup
         {x \in {beforeUnderscore(LowerNetwork(h))} : x # "" /\ x # LowerNetwork(h)}

\* C11. Scam filtering: a holding with a scam-pattern name adds only its
\* network tags to the profile tag set: the tag set is the tags of the other
\* holdings together with the network tags of the scam-named ones, and the
\* symbol of a scam-named holding is in it only if another holding adds it.
ScamAddsNetworkTagsOnly ==
    Extracted =>
        /\ portfolioTokenTypes =
              UNION {IF ScamNamed(Portfolio[j]) THEN NetworkTagsOf(Portfolio[j])
                     ELSE holdingTags(Portfolio[j]) : j \in HoldingIndex}
        /\ (\A j \in HoldingIndex : ScamNamed(Portfolio[j]))
              => \A j \in HoldingIndex :
                    LowerSymbol(Portfolio[j]) \notin
                        portfolioTokenTypes \ NetworkTagsOf(Portfolio[j])

(***************************************************************************)
(* Further properties of the recommendation list                           *)
(***************************************************************************)

\* C12. Only positive scores are ranked: the score of a catalog entry is -1
\* exactly when its lowercase symbol is held and is 0 or more otherwise, and
\* every entry of a ranked list (an entry that carries a score) has the score
\* of its catalog entry, which is above 0.
OnlyPositiveRanked ==
    portfolioData.kind = "value" =>
        /\ \A i \in CatalogIndex :
              /\ ScoreAt(i) = -1 <=> toLowerCase(tokenData[i].symbol) \in HeldLower
              /\ ScoreAt(i) >= -1
        /\ HasList =>
              \A k \in 1..Len(TheList) :
                  "score" \in DOMAIN TheList[k] =>
                      /\ TheList[k].score > 0
                      /\ \E i \in CatalogIndex :
                            /\ tokenData[i].id = TheList[k].id
                            /\ ScoreAt(i) = TheList[k].score

\* A ranked list with room left was returned for a catalog that has an entry
\* of score 0.
OnlyPositiveWitness ==
    /\ RankedPath
    /\ Len(TheList) < N
    /\ \E i \in CatalogIndex : ScoreAt(i) = 0

\* A catalog entry whose categories field is absent or an empty sequence.
NoCategories(token) == "categories" \notin DOMAIN token \/ token.categories = <<>>

\* C13. Missing or empty categories: once the recommendations query has run,
\* it has not raised an error, and every catalog entry without categories has
\* no score above 0 and is not an entry of a ranked list.
MissingCategoriesExcluded ==
    recommendations.kind \in {"value", "error"} =>
        /\ recommendations.kind # "error"
        /\ \A i \in CatalogIndex :
              NoCategories(tokenData[i]) =>
                  /\ ScoreAt(i) <= 0
                  /\ \A k \in 1..Len(TheList) :
                        "score" \in DOMAIN TheList[k] => TheList[k].id # tokenData[i].id

(***************************************************************************)
(* Properties of the portfolio summary                                     *)
(***************************************************************************)

\* The page has rendered with the data of the portfolio query.
Rendered == portfolioByNetwork # JsUndefined

\* A balance that is a decimal number as a whole: digits with an optional
\* fraction; its value in thousandths, 0 for a missing or any other balance.
IsDecimal(str) ==
    /\ str # ""
    /\ \A i \in 1..Len(str) : CharAt(str, i) \in Digits \cup {"."}
    /\ Cardinality({i \in 1..Len(str) : CharAt(str, i) = "."}) <= 1
    /\ \E i \in 1..Len(str) : CharAt(str, i) \in Digits
BalanceMilli(h) ==
    IF "balanceUSD" \in DOMAIN h /\ h.balanceUSD # Null /\ IsDecimal(h.balanceUSD)
    THEN parseFloat(h.balanceUSD).milli ELSE 0
RECURSIVE SumMilli(_)
SumMilli(portfolio) ==
    IF portfolio = <<>> THEN 0
    ELSE BalanceMilli(Head(portfolio)) + SumMilli(Tail(portfolio))

\* C14. Portfolio total: after a render no memo has raised an error, the
\* total is a number, the sum of the balances where a missing or unparseable
\* balance counts 0, and an empty portfolio gives an empty network mapping,
\* a network count of 0 and a total of 0.
PortfolioTotal ==
    Rendered =>
        /\ portfolioByNetwork.kind = "value"
        /\ networksCount.kind = "number"
        /\ totalPortfolioValue.kind = "number"
        /\ totalPortfolioValue.milli = SumMilli(Portfolio)
        /\ Portfolio = <<>> =>
              /\ portfolioByNetwork.value = <<>>
              /\ networksCount.milli = 0
              /\ totalPortfolioValue.milli = 0

\* C19. Network special-cases: after the extractor ran, a holding on the
\* network moonbeam has put polkadot and parachain in the tag set, one on
\* gnosis ethereum and layer-2, one on solana sol and layer-1.
NetworkSpecialCases ==
    Extracted =>
        \A j \in HoldingIndex :
            /\ LowerNetwork(Portfolio[j]) = "moonbeam"
                  => {"polkadot", "parachain"} \subseteq portfolioTokenTypes
            /\ LowerNetwork(Portfolio[j]) = "gnosis"
                  => {"ethereum", "layer-2"} \subseteq portfolioTokenTypes
            /\ LowerNetwork(Portfolio[j]) = "solana"
                  => {"sol", "layer-1"} \subseteq portfolioTokenTypes

\* The meme patterns of the claim, and the ones among them the symbol is
\* tested for.
MemeFamilyPatterns == {"inu", "shib", "doge", "pepe", "moon", "elon", "safe"}
MemeSymbolTriggers == {"inu", "shib", "doge", "pepe"}
MemeTagged == {"meme", "meme-token"} \subseteq portfolioTokenTypes

\* C20 as stated. Meme keyword family: after the extractor ran, every holding
\* that is not scam-named and whose symbol or name contains one of inu, shib,
\* doge, pepe, moon, elon, safe has put meme and meme-token in the tag set.
MemeFamilyEqualTriggers ==
    Extracted =>
        \A j \in HoldingIndex :
            (/\ ~ScamNamed(Portfolio[j])
             /\ \E p \in MemeFamilyPatterns :
                   \/ includes(LowerName(Portfolio[j]), p)
                   \/ includes(LowerSymbol(Portfolio[j]), p))
                => MemeTagged

\* C20, amended. Meme keyword family: after the extractor ran, every holding
\* that is not scam-named and whose name contains one of inu, shib, doge,
\* pepe, moon, elon, safe, or whose symbol contains one of inu, shib, doge,
\* pepe, has put meme and meme-token in the tag set.
MemeFamily ==
    Extracted =>
        \A j \in HoldingIndex :
            (/\ ~ScamNamed(Portfolio[j])
             /\ \/ \E p \in MemeFamilyPatterns : includes(LowerName(Portfolio[j]), p)
                \/ \E p \in MemeSymbolTriggers : includes(LowerSymbol(Portfolio[j]), p))
                => MemeTagged

\* The extractor ran for a holding whose name alone has a meme pattern, one
\* the symbol is not tested for, and put meme and meme-token in the tag set.
MemeFamilyWitness ==
    /\ Extracted
    /\ MemeTagged
    /\ \A j \in HoldingIndex :
          /\ ~ScamNamed(Portfolio[j])
          /\ \E p \in MemeFamilyPatterns \ MemeSymbolTriggers :
                includes(LowerName(Portfolio[j]), p)
          /\ \A p \in MemeFamilyPatterns : ~includes(LowerSymbol(Portfolio[j]), p)

(***************************************************************************)
(* Properties of the rate limiter                                          *)
(***************************************************************************)

\* The admitted checks of a key in the last windowMs, and in the counting
\* window its entry belongs to.
AdmittedInInterval(key) ==
    Cardinality({i \in 1..Len(admittedOf(key)) :
                    admittedOf(key)[i] > now - windowMs})
AdmittedInWindow(key) ==
    Cardinality({i \in 1..Len(admittedOf(key)) :
                    admittedOf(key)[i] >= requests[key].resetTime - windowMs})

\* C21 as stated. Rate limit: no key has more than maxRequests admitted
\* checks within the windowMs that end now.
RateLimitAnyInterval ==
    \A key \in Keys : AdmittedInInterval(key) <= maxRequests

\* C21, amended. Rate limit: no key has more than maxRequests admitted
\* checks within one counting window, from the first check of the window to
\* its resetTime, nor more than twice maxRequests within the windowMs that end
\* now.
RateLimitPerWindow ==
    \A key \in Keys :
        /\ key \in DOMAIN requests => AdmittedInWindow(key) <= maxRequests
        /\ AdmittedInInterval(key) <= 2 * maxRequests

\* A key has used up its counting window, had a check denied, and had checks
\* admitted in the window before within the same windowMs.
RateLimitWitness ==
    \E key \in DOMAIN requests :
        /\ requests[key].count > maxRequests
        /\ AdmittedInWindow(key) = maxRequests
        /\ AdmittedInInterval(key) > maxRequests

\* The step is a check of `key`: every check raises a count.
IsCheckOf(key) == requests' # requests /\ checked'.key = key
\* The counting window of `key` is open at time t.
InWindow(key, t) == key \in DOMAIN requests /\ requests[key].resetTime >= t

\* C22. Rate-limit recovery: no step changes the resetTime of a counting
\* window that is still open; a check of a key whose window is open adds one
\* to its count, whether admitted or denied; a check of a key made after its
\* resetTime is admitted with remaining = maxRequests - 1; and remaining is
\* never negative.
RateLimitRecovery ==
    [][\A key \in Keys :
          /\ (InWindow(key, now') /\ key \in DOMAIN requests')
                => requests'[key].resetTime = requests[key].resetTime
          /\ IsCheckOf(key) =>
                /\ checked'.result.remaining >= 0
                /\ InWindow(key, now) =>
                      requests'[key].count = requests[key].count + 1
                /\ (key \in DOMAIN requests /\ requests[key].resetTime < now) =>
                      /\ checked'.result.success
                      /\ checked'.result.remaining = maxRequests - 1]_vars

\* The last check opened a new counting window for a key that has admitted
\* checks of the window before, and was admitted with maxRequests - 1
\* remaining.
RateLimitRecoveryWitness ==
    /\ checked # <<>>
    /\ checked.key \in DOMAIN requests
    /\ requests[checked.key].count = 1
    /\ checked.result.success
    /\ checked.result.remaining = maxRequests - 1
    /\ \E i \in 1..Len(admittedOf(checked.key)) :
          admittedOf(checked.key)[i] < requests[checked.key].resetTime - windowMs


(***************************************************************************)
(* Properties of GET /api/networks                                         *)
(***************************************************************************)

\* The step starts a handler that answers without a fetch.
AnswersAtOnce ==
    pendingGets' = pendingGets /\ networksResponse' # networksResponse

\* The step starts a handler that sends the introspection query.
IssuesUpstream ==
    \E h \in Handlers : pendingGets[h] = Idle /\ pendingGets'[h] # Idle

\* The step ends handler h, whose fetch threw.
FetchThrew ==
    /\ \E h \in Handlers : pendingGets[h] # Idle /\ pendingGets'[h] = Idle
    /\ networksResponse'.upstream = "throws"

\* The response sent by the step is the cached list, marked as such.
AnswersFromCache ==
    /\ networksResponse'.status = 200
    /\ networksResponse'.fromCache = "true"
    /\ networksResponse'.networkIds = cachedNetworks.value

DefaultNetworksIncluded ==
    (networksResponse # <<>> /\ networksResponse.status = 200) =>
        /\ Range(DEFAULT_NETWORKS) \subseteq Range(networksResponse.networkIds)
        /\ (/\ networksResponse.fromCache = "true"
            /\ networksResponse.networkIds = cachedNetworks.value) =>
               networksResponse.networkIds = includedNetworkIds(cachedNetworks.value)


(***************************************************************************)
(* Properties of fetchTokensWithCategories                                 *)
(***************************************************************************)

\* The step starts a call that returns without a request.
ReturnsAtOnce ==
    pendingFetches' = pendingFetches /\ tokensReturned' # tokensReturned

\* The step starts a call that requests the markets list.
RequestsMarkets ==
    \E h \in Handlers : ~pendingFetches[h] /\ pendingFetches'[h]

\* The step ends the call of caller h.
Settles(h) == pendingFetches[h] /\ ~pendingFetches'[h]

FailureKinds == {"notOk", "noArray", "throws"}

\* C25: a call of fetchTokensWithCategories ends with a returned catalog;
\* with a catalog cached less than TOKENS_CACHE_DURATION ago a call returns
\* it without a request; a call whose request fails returns the cached
\* catalog if there is one, expired or not, and else the ten hardcoded
\* tokens; only a successful request writes the cache, so the hardcoded
\* list is never cached.
CatalogFallback ==
    [][/\ (cachedTokens # JsNull /\ now < tokensTimestamp + TOKENS_CACHE_DURATION) =>
              /\ ~RequestsMarkets
              /\ ReturnsAtOnce => /\ tokensReturned'.upstream = "none"
                                  /\ tokensReturned'.value = cachedTokens.value
       /\ \A h \in Handlers : Settles(h) =>
              /\ tokensReturned'.caller = h
              /\ tokensReturned'.upstream \in FailureKinds =>
                     /\ tokensReturned'.value =
                            IF cachedTokens # JsNull THEN cachedTokens.value
                            ELSE hardcodedTokens
                     /\ cachedTokens = JsNull => Len(tokensReturned'.value) = 10
                     /\ UNCHANGED <<cachedTokens, tokensTimestamp>>
       /\ cachedTokens' # cachedTokens =>
              /\ tokensReturned'.upstream = "ok"
              /\ cachedTokens' = JsValue(tokensReturned'.value)
              /\ cachedTokens'.value # hardcodedTokens]_vars

\* A request failed after the cached catalog expired, and the expired
\* catalog was returned.
CatalogFallbackWitness ==
    /\ tokensReturned # <<>>
    /\ tokensReturned.upstream \in FailureKinds
    /\ cachedTokens # JsNull
    /\ tokensReturned.value = cachedTokens.value
    /\ tokensReturned.at >= tokensTimestamp + TOKENS_CACHE_DURATION


(***************************************************************************)
(* Properties of the Zapper proxy's retry                                  *)
(***************************************************************************)

\* The errors of the first answer that say a network is not in the enum.
FirstNetworkErrors ==
    IF Len(zapperAnswers) = 0 \/ zapperAnswers[1].kind # "errors" THEN {}
    ELSE {i \in DOMAIN zapperAnswers[1].errors :
              zapperAnswers[1].errors[i].about \in {"variable", "literal"}}
NamedInvalid ==
    {zapperAnswers[1].errors[i].invalid : i \in FirstNetworkErrors} \ {Null}
NamedSuggested ==
    {zapperAnswers[1].errors[i].suggestion : i \in FirstNetworkErrors} \ {Null}

\* The POST was answered 429 or 500 for the missing API key.
TurnedAway ==
    /\ Len(proxyResponses) = 1
    /\ \/ proxyResponses[1].status = 429
       \/ proxyResponses[1].error = "Server configuration error: Missing API key"

ProxyRetryBounds ==
    /\ Len(upstreamRequests) <= 2
    /\ Len(upstreamRequests) = 2 =>
           LET requested == upstreamRequests[1]
               retried == Range(upstreamRequests[2].value)
           IN  /\ FirstNetworkErrors # {}
               /\ requested # JsUndefined
               /\ Cardinality(FirstNetworkErrors) < Len(requested.value)
               /\ retried = (Range(requested.value) \ NamedInvalid) \cup NamedSuggested
    /\ TurnedAway => upstreamRequests = <<>>
    /\ Len(proxyResponses) = IF proxyStage = "done" THEN 1 ELSE 0

\* C26: a POST sends at most two requests to Zapper; the second only after
\* a first answer with invalid-network errors, fewer than the requested
\* networks, and with the named invalid networks removed and the suggested
\* ones added; a POST answered 429 or 500 for the missing key sent none;
\* and every POST comes to exactly one response.
BoundedProxyRetry ==
    /\ []ProxyRetryBounds
    /\ (proxyStage \in {"first", "retry"}) ~> (proxyStage = "done")

\* A retry replaced a rejected network by the suggested one and was answered.
BoundedProxyRetryWitness ==
    /\ proxyStage = "done"
    /\ Len(upstreamRequests) = 2
    /\ NamedInvalid # {}
    /\ NamedSuggested \ Range(upstreamRequests[1].value) # {}
    /\ proxyResponses[1].status = 200


(***************************************************************************)
(* Properties of the Analyze button                                        *)
(***************************************************************************)

\* A run of handleAnalyze is under way.
Running == analyzeRun.stage \in {"fetching", "timer"}

\* The step issues a portfolio fetch.
IssuesFetch == analyzeRun'.stage = "fetching" /\ analyzeRun.stage # "fetching"

\* The step starts a run.
StartsRun == IssuesFetch /\ analyzeRun'.retryCount = 0

AnalyzeBounds ==
    /\ analyzeRun.fetches <= maxRetries
    /\ Running => isAnalyzing

AnalyzeSteps ==
    /\ StartsRun => ~isAnalyzing /\ ~Running
    /\ (IssuesFetch /\ ~StartsRun) =>
           /\ analyzeRun.stage = "timer"
           /\ analyzeRun.retryCount < maxRetries
           /\ analyzeRun'.fetches = analyzeRun.fetches + 1

\* C27: a run of handleAnalyze issues at most maxRetries fetches; a fetch
\* after the first is issued only by the timer and only while retryCount <
\* maxRetries; a run starts only while isAnalyzing is false, and isAnalyzing
\* stays true while it is under way; every run comes to set isAnalyzing to
\* false.
AnalyzeTermination ==
    /\ []AnalyzeBounds
    /\ [][AnalyzeSteps]_vars
    /\ isAnalyzing ~> ~isAnalyzing

\* A run gave up after maxRetries fetches.
AnalyzeTerminationWitness ==
    /\ analyzeRun.stage = "ended"
    /\ analyzeRun.fetches = maxRetries
    /\ analyzeRun.retryCount = maxRetries
    /\ ~isAnalyzing

\* C28: once a fetch of the run has returned holdings the run issues no
\* further fetch, the error is null when the run has ended, and the error
\* is never NoTokensFound.
AnalyzeSuccessStops ==
    analyzeRun.foundAt > 0 =>
        /\ analyzeRun.fetches = analyzeRun.foundAt
        /\ error # NoTokensFound
        /\ analyzeRun.stage = "ended" => error = Null


(***************************************************************************)
(* Properties of the order of the holdings                                 *)
(***************************************************************************)

\* The portfolios that list the holdings of walletHoldings in some order.
Reordered ==
    {portfolio \in OrderPortfolios :
        /\ Len(portfolio) = Len(walletHoldings)
        /\ Range(portfolio) = Range(walletHoldings)}

\* The ids of a list with the score of each entry (none for an entry of
\* the fallback, which has no score).
IdsAndScores(list) ==
    [k \in 1..Len(list) |->
        <<list[k].id, IF "score" \in DOMAIN list[k] THEN list[k].score ELSE -1>>]

\* C29: the tags extracted from the portfolio are those of every
\* reordering of it, and the recommendations for the portfolio have the
\* ids, the order and the scores of the recommendations for every
\* reordering of it.
PortfolioOrderIndependence ==
    \A portfolio \in Reordered :
        /\ portfolioTokenTypes # {} =>
               portfolioTokenTypes = extractTypes(portfolio)
        /\ recommendations # JsUndefined =>
               LET other == queryFn(JsValue(portfolio), tokenData)
               IN  /\ other.kind = recommendations.kind
                   /\ IdsAndScores(other.value) = IdsAndScores(recommendations.value)

\* The catalog token of the k-th recommendation.
RecommendedToken(k) ==
    tokenData[CHOOSE i \in 1..Len(tokenData) :
                  tokenData[i].id = recommendations.value[k].id]

\* Recommendations with scores for a portfolio of two holdings with
\* different tags: one entry owes its score to the first holding alone,
\* another has a score from the second.
PortfolioOrderWitness ==
    /\ Len(walletHoldings) = 2
    /\ holdingTags(walletHoldings[1]) # holdingTags(walletHoldings[2])
    /\ portfolioTokenTypes # {}
    /\ recommendations.kind = "value"
    /\ Len(recommendations.value) >= 2
    /\ \A k \in 1..Len(recommendations.value) :
           "score" \in DOMAIN recommendations.value[k]
    /\ \E k, j \in 1..Len(recommendations.value) :
           /\ portfolioScore(<<walletHoldings[1]>>, RecommendedToken(k)) > 0
           /\ portfolioScore(<<walletHoldings[2]>>, RecommendedToken(k)) <= 0
           /\ portfolioScore(<<walletHoldings[2]>>, RecommendedToken(j)) > 0

(***************************************************************************)
(* Properties of the recommendations from the live catalog                 *)
(***************************************************************************)

\* Every entry of the catalog has 'cryptocurrency' as its first category.
AllCryptocurrency(catalog) ==
    \A i \in 1..Len(catalog) :
        /\ Len(catalog[i].categories) > 0
        /\ catalog[i].categories[1] = "cryptocurrency"

\* The positive-score candidates of the current portfolio and catalog,
\* sorted by score.
Candidates ==
    IF portfolioData.kind = "value"
    THEN scoredTokensOf(portfolioData.value, tokenData) ELSE <<>>

\* C30: a catalog that fetchTokensWithCategories built from a markets list
\* (returned fresh or from the cache) has 'cryptocurrency' as the first
\* category of every entry; for a catalog of such entries with k > 0
\* positive-score candidates the diversity pass selects one candidate and
\* the recommendations are the first min(N, k) of the sorted candidates.
LiveCatalogDiversity ==
    /\ (tokensReturned # <<>> /\ tokensReturned.upstream \in {"ok", "none"}) =>
           AllCryptocurrency(tokensReturned.value)
    /\ (/\ AllCryptocurrency(tokenData)
        /\ recommendations # JsUndefined
        /\ Len(Candidates) > 0) =>
           /\ Len(diversityPass(Candidates, <<>>, N)) = 1
           /\ recommendations = JsValue(Slice(Candidates, N))

\* Recommendations from a live catalog with more than N candidates.
LiveCatalogDiversityWitness ==
    /\ tokensReturned # <<>>
    /\ tokensReturned.upstream = "ok"
    /\ tokenData = tokensReturned.value
    /\ Len(Candidates) > N
    /\ recommendations.kind = "value"
    /\ Len(recommendations.value) = N

=============================================================================
